---- MODULE Spec2Model ----
(***************************************************************************)
(* Calendar period/view computation of the shared calendar front end:     *)
(* the date utilities (dateUtils) and the useCalendarView hook.            *)
(*                                                                         *)
(* A host Date is modelled as a record [day, ms]: day is the number of    *)
(* local calendar days since 1970-01-01 and ms the millisecond of that    *)
(* day, so that getTime() order is the lexicographic order of (day, ms).   *)
(* Local wall-clock arithmetic, no daylight-saving shifts.                 *)
(***************************************************************************)
EXTENDS Integers, Sequences, FiniteSets, Bags, TLC

VARIABLES currentDate, viewMode, op, arg, ret, events, loading, pending,
          inflight, useSampleData, form, dialog

\* the state of useEvents: the events list, the loading state and the number of
\* fetch requests awaiting their response
eventVars == <<events, loading, pending>>

\* the requests awaiting their response, the mode of the backend service, the
\* state of useEventForm and the state of the event dialog
sessionVars == <<inflight, useSampleData, form, dialog>>

vars == <<currentDate, viewMode, op, arg, ret, events, loading, pending,
          inflight, useSampleData, form, dialog>>

---------------------------------------------------------------------------
(* Bounds *)

\* number of days of the window the view anchor may move in
ViewWindowDays == 500

\* number of days of the window the date utilities are applied to
MathWindowDays == 1600

\* number of years whose months generateCalendarDates is applied to
MathYearCount == 5

\* number of distinct event ids (and so the longest events list)
MaxEventId == 3

\* number of fetch requests that may be in flight together
MaxPending == 2

---------------------------------------------------------------------------
(* The host Date primitive *)

MsPerDay == 24 * 60 * 60 * 1000

TimeOfDay(h, mi, s, ms) == ((h * 60 + mi) * 60 + s) * 1000 + ms

\* days since 1970-01-01 of the civil date y-m-d, m in 1..12
DaysFromCivil(y, m, d) ==
  LET yy  == IF m <= 2 THEN y - 1 ELSE y
      era == yy \div 400
      yoe == yy - era * 400
      mp  == IF m > 2 THEN m - 3 ELSE m + 9
      doy == (153 * mp + 2) \div 5 + d - 1
      doe == yoe * 365 + yoe \div 4 - yoe \div 100 + doy
  IN  era * 146097 + doe - 719468

\* the civil date [y, m, d] (m in 1..12) of a day number
CivilFromDays(z) ==
  LET zz  == z + 719468
      era == zz \div 146097
      doe == zz - era * 146097
      yoe == (doe - doe \div 1460 + doe \div 36524 - doe \div 146096) \div 365
      doy == doe - (365 * yoe + yoe \div 4 - yoe \div 100)
      mp  == (5 * doy + 2) \div 153
      d   == doy - (153 * mp + 2) \div 5 + 1
      m   == IF mp < 10 THEN mp + 3 ELSE mp - 9
      y   == yoe + era * 400
  IN  [y |-> IF m <= 2 THEN y + 1 ELSE y, m |-> m, d |-> d]

\* MakeDay of the host: month is 0-based and may lie outside 0..11, date may
\* lie outside the month; both overflow into the neighbouring months/years
MakeDay(year, month, date) ==
  DaysFromCivil(year + month \div 12, (month % 12) + 1, 1) + date - 1

getFullYear(date) == CivilFromDays(date.day).y

getMonth(date) == CivilFromDays(date.day).m - 1

getDate(date) == CivilFromDays(date.day).d

\* 0 = Sunday .. 6 = Saturday; 1970-01-01 was a Thursday
getDay(date) == (date.day + 4) % 7

\* new Date(year, month, date): local midnight
NewDate(year, month, date) == [day |-> MakeDay(year, month, date), ms |-> 0]

\* new Date(year, month, date, h, mi, s, ms)
NewDateTime(year, month, date, h, mi, s, ms) ==
  [day |-> MakeDay(year, month, date), ms |-> TimeOfDay(h, mi, s, ms)]

setMonth(date, month) ==
  [day |-> MakeDay(getFullYear(date), month, getDate(date)), ms |-> date.ms]

setDate(date, dt) ==
  [day |-> MakeDay(getFullYear(date), getMonth(date), dt), ms |-> date.ms]

setHours(date, h, mi, s, ms) == [day |-> date.day, ms |-> TimeOfDay(h, mi, s, ms)]

\* a <= b on Dates (comparison of getTime())
DateLE(a, b) == a.day < b.day \/ (a.day = b.day /\ a.ms <= b.ms)

---------------------------------------------------------------------------
(* dateUtils *)

getMonthStart(date) == NewDate(getFullYear(date), getMonth(date), 1)

\* variant: the month is not advanced before taking day 0
getMonthEndOfPreviousMonth(date) == NewDate(getFullYear(date), getMonth(date), 0)

getMonthEnd(date) == NewDate(getFullYear(date), getMonth(date) + 1, 0)

\* variant: no special case for Sunday
getWeekStartNoSundayCase(date) ==
  LET day   == getDay(date)
      diff  == 1 - day
      start == setDate(date, getDate(date) + diff)
  IN  setHours(start, 0, 0, 0, 0)

\* variant: a Sunday is moved a whole week back
getWeekStartSundayWeekBack(date) ==
  LET day   == getDay(date)
      diff  == IF day = 0 THEN -7 ELSE 1 - day
      start == setDate(date, getDate(date) + diff)
  IN  setHours(start, 0, 0, 0, 0)

getWeekStart(date) ==
  LET day   == getDay(date)
      diff  == IF day = 0 THEN -6 ELSE 1 - day
      start == setDate(date, getDate(date) + diff)
  IN  setHours(start, 0, 0, 0, 0)

getWeekEnd(date) ==
  LET start == getWeekStart(date)
      end   == setDate(start, getDate(start) + 6)
  IN  setHours(end, 23, 59, 59, 999)

\* getToday() when the clock reads now
getToday(now) == setHours(now, 0, 0, 0, 0)

RECURSIVE CalendarLoop(_, _, _)
CalendarLoop(current, endDate, dates) ==
  IF DateLE(current, endDate)
  THEN CalendarLoop(setDate(current, getDate(current) + 1), endDate,
                    Append(dates, current))
  ELSE dates

\* variant: the grid stops at the last day of the month
generateCalendarDatesNoTrailingDays(year, month) ==
  LET firstDay  == NewDate(year, month, 1)
      lastDay   == NewDate(year, month + 1, 0)
      startDate == getWeekStart(firstDay)
  IN  CalendarLoop(startDate, lastDay, <<>>)

\* variant: the grid starts at the first day of the month
generateCalendarDatesNoLeadingDays(year, month) ==
  LET firstDay  == NewDate(year, month, 1)
      lastDay   == NewDate(year, month + 1, 0)
      endDate   == getWeekEnd(lastDay)
  IN  CalendarLoop(firstDay, endDate, <<>>)

generateCalendarDates(year, month) ==
  LET firstDay  == NewDate(year, month, 1)
      lastDay   == NewDate(year, month + 1, 0)
      startDate == getWeekStart(firstDay)
      endDate   == getWeekEnd(lastDay)
  IN  CalendarLoop(startDate, endDate, <<>>)

---------------------------------------------------------------------------
(* useCalendarView *)

Month == "month"
Week == "week"
Day == "day"

CalendarViewMode == {Month, Week, Day}

getPeriodStart(date, mode) ==
  CASE mode = Month -> getMonthStart(date)
    [] mode = Week  -> getWeekStart(date)
    [] mode = Day   -> setHours(date, 0, 0, 0, 0)
    [] OTHER        -> date

\* variant: Day mode falls through to the default branch
getPeriodEndDayFallsThrough(date, mode) ==
  CASE mode = Month -> getMonthEnd(date)
    [] mode = Week  -> getWeekEnd(date)
    [] OTHER        -> date

getPeriodEnd(date, mode) ==
  CASE mode = Month -> getMonthEnd(date)
    [] mode = Week  -> getWeekEnd(date)
    [] mode = Day   -> setHours(date, 23, 59, 59, 999)
    [] OTHER        -> date

\* the setCurrentDate updater of goToPrevious
previousDate(prev, mode) ==
  CASE mode = Month -> setMonth(prev, getMonth(prev) - 1)
    [] mode = Week  -> setDate(prev, getDate(prev) - 7)
    [] mode = Day   -> setDate(prev, getDate(prev) - 1)
    [] OTHER        -> prev

\* the setCurrentDate updater of goToNext
nextDate(prev, mode) ==
  CASE mode = Month -> setMonth(prev, getMonth(prev) + 1)
    [] mode = Week  -> setDate(prev, getDate(prev) + 7)
    [] mode = Day   -> setDate(prev, getDate(prev) + 1)
    [] OTHER        -> prev

---------------------------------------------------------------------------
(* Inputs *)

TimesOfDay == {0, TimeOfDay(12, 0, 0, 0), TimeOfDay(23, 59, 59, 999)}

ViewWindowStart == MakeDay(2023, 11, 1)

ViewDays == ViewWindowStart .. (ViewWindowStart + ViewWindowDays - 1)

InViewWindow(date) == date.day \in ViewDays

\* dates handed to the hook (initialDate, goToDate) and read from the clock
AnchorInputs ==
  { [day |-> d, ms |-> t] :
      d \in { MakeDay(2024, 0, 31), MakeDay(2024, 1, 29), MakeDay(2024, 2, 15),
              MakeDay(2024, 2, 31), MakeDay(2024, 11, 30), MakeDay(2025, 0, 31) },
      t \in TimesOfDay }

ClockReadings ==
  { NewDateTime(2024, 2, 15, 9, 30, 0, 0), NewDateTime(2024, 0, 31, 12, 0, 0, 0),
    NewDateTime(2024, 11, 29, 23, 59, 59, 999) }

MathWindowStart == MakeDay(2021, 0, 1)

MathInputs ==
  { [day |-> d, ms |-> t] :
      d \in MathWindowStart .. (MathWindowStart + MathWindowDays - 1),
      t \in TimesOfDay }

\* (year, month) pairs, month 0-based as getMonth() returns it
MonthInputs ==
  { <<y, m>> : y \in getFullYear([day |-> MathWindowStart, ms |-> 0]) ..
                      (getFullYear([day |-> MathWindowStart, ms |-> 0]) + MathYearCount - 1),
               m \in 0 .. 11 }

---------------------------------------------------------------------------
(* The hook as a state machine *)

\* no error in the validationErrors object
NoErrors == [key \in {} |-> "undefined"]

\* new Date() at the time the form hook is mounted or reset
FormClock == [day |-> MakeDay(2024, 2, 15), ms |-> TimeOfDay(15, 30, 0, 0)]

\* useEventForm's initial state
InitialForm ==
  [formData |->
     [title         |-> [len |-> 0, blank |-> TRUE],
      description   |-> [defined |-> TRUE, value |-> [len |-> 0, blank |-> TRUE]],
      startDateTime |-> FormClock,
      endDateTime   |-> FormClock,
      location      |-> [defined |-> TRUE, value |-> [len |-> 0, blank |-> TRUE]],
      category      |-> [defined |-> TRUE, value |-> ""],
      color         |-> [defined |-> TRUE, value |-> <<"#", "2", "1", "9", "6", "F", "3">>]],
   validationErrors |-> NoErrors,
   loading |-> [isLoading |-> FALSE, error |-> "null"]]

\* nothing in flight, the database-backed service, the form hook just
\* mounted, the dialog closed
InitSession ==
  /\ inflight = <<>>
  /\ useSampleData = FALSE
  /\ form = InitialForm
  /\ dialog = [open |-> FALSE, event |-> [id |-> 0]]

\* useEvents before its mount effect has run
InitEvents ==
  /\ events = <<>>
  /\ loading = [isLoading |-> FALSE, error |-> "null"]
  /\ pending = 0

Init ==
  /\ currentDate \in AnchorInputs \cup { getToday(now) : now \in ClockReadings }
  /\ viewMode = Month
  /\ op = "init"
  /\ arg = <<>>
  /\ ret = <<>>
  /\ InitEvents
  /\ InitSession

goToDate(date) ==
  /\ currentDate' = date
  /\ op' = "goToDate"
  /\ arg' = <<date>>
  /\ ret' = <<>>
  /\ UNCHANGED <<viewMode, eventVars, sessionVars>>

goToToday(now) ==
  /\ currentDate' = getToday(now)
  /\ op' = "goToToday"
  /\ arg' = <<now>>
  /\ ret' = <<>>
  /\ UNCHANGED <<viewMode, eventVars, sessionVars>>

goToPrevious ==
  /\ InViewWindow(previousDate(currentDate, viewMode))
  /\ currentDate' = previousDate(currentDate, viewMode)
  /\ op' = "goToPrevious"
  /\ arg' = <<>>
  /\ ret' = <<>>
  /\ UNCHANGED <<viewMode, eventVars, sessionVars>>

goToNext ==
  /\ InViewWindow(nextDate(currentDate, viewMode))
  /\ currentDate' = nextDate(currentDate, viewMode)
  /\ op' = "goToNext"
  /\ arg' = <<>>
  /\ ret' = <<>>
  /\ UNCHANGED <<viewMode, eventVars, sessionVars>>

\* variant: switching the mode re-anchors the date on the start of the period
changeViewModeReanchoring(mode) ==
  /\ viewMode' = mode
  /\ currentDate' = getPeriodStart(currentDate, mode)
  /\ op' = "changeViewMode"
  /\ arg' = <<mode>>
  /\ ret' = <<>>
  /\ UNCHANGED <<eventVars, sessionVars>>

changeViewMode(mode) ==
  /\ viewMode' = mode
  /\ op' = "changeViewMode"
  /\ arg' = <<mode>>
  /\ ret' = <<>>
  /\ UNCHANGED <<currentDate, eventVars, sessionVars>>

callGetPeriodStart ==
  /\ op' = "getPeriodStart"
  /\ arg' = <<>>
  /\ ret' = <<getPeriodStart(currentDate, viewMode)>>
  /\ UNCHANGED <<currentDate, viewMode, eventVars, sessionVars>>

callGetPeriodEnd ==
  /\ op' = "getPeriodEnd"
  /\ arg' = <<>>
  /\ ret' = <<getPeriodEnd(currentDate, viewMode)>>
  /\ UNCHANGED <<currentDate, viewMode, eventVars, sessionVars>>

\* the timestamps isDateInPeriod is asked about
ProbeInputs ==
  { [day |-> d, ms |-> t] :
      d \in { MakeDay(2024, 2, 15), MakeDay(2024, 2, 31) }, t \in TimesOfDay }

\* date >= periodStart && date <= periodEnd
isDateInPeriod(current, mode, date) ==
  /\ DateLE(getPeriodStart(current, mode), date)
  /\ DateLE(date, getPeriodEnd(current, mode))

callIsDateInPeriod(date) ==
  /\ op' = "isDateInPeriod"
  /\ arg' = <<date>>
  /\ ret' = <<isDateInPeriod(currentDate, viewMode, date)>>
  /\ UNCHANGED <<currentDate, viewMode, eventVars, sessionVars>>

Next ==
  \/ \E date \in AnchorInputs : goToDate(date)
  \/ \E now \in ClockReadings : goToToday(now)
  \/ goToPrevious
  \/ goToNext
  \/ \E mode \in CalendarViewMode : changeViewMode(mode)
  \/ callGetPeriodStart
  \/ callGetPeriodEnd
  \/ \E date \in ProbeInputs : callIsDateInPeriod(date)

Spec == Init /\ [][Next]_vars

---------------------------------------------------------------------------
(* The date utilities applied to bounded inputs *)

InitMath ==
  /\ arg \in { <<d>> : d \in MathInputs } \cup MonthInputs
  /\ op = "input"
  /\ ret = <<>>
  /\ currentDate = NewDate(2024, 2, 15)
  /\ viewMode = Month
  /\ InitEvents
  /\ InitSession

Apply(arity, name, result) ==
  /\ Len(arg) = arity
  /\ op' = name
  /\ ret' = result
  /\ UNCHANGED <<arg, currentDate, viewMode, eventVars, sessionVars>>

applyGetMonthStart == Apply(1, "getMonthStart", <<getMonthStart(arg[1])>>)

applyGetMonthEnd == Apply(1, "getMonthEnd", <<getMonthEnd(arg[1])>>)

applyGetWeekStart == Apply(1, "getWeekStart", <<getWeekStart(arg[1])>>)

applyGetWeekEnd == Apply(1, "getWeekEnd", <<getWeekEnd(arg[1])>>)

applyGenerateCalendarDates ==
  Apply(2, "generateCalendarDates", generateCalendarDates(arg[1], arg[2]))

NextMath ==
  \/ applyGetMonthStart
  \/ applyGetMonthEnd
  \/ applyGetWeekStart
  \/ applyGetWeekEnd
  \/ applyGenerateCalendarDates

SpecMath == InitMath /\ [][NextMath]_vars

---------------------------------------------------------------------------
(* Event projection of the views: MonthView, WeekView, DayView *)

getHours(date) == date.ms \div (60 * 60 * 1000)

\* a.getTime() < b.getTime()
DateLT(a, b) == a.day < b.day \/ (a.day = b.day /\ a.ms < b.ms)

\* Date.toDateString(): weekday, month, day of month and year
toDateString(date) ==
  <<getDay(date), getMonth(date), getDate(date), getFullYear(date)>>

\* variant: the two dates are compared as instants
isSameDayExactTime(date1, date2) == date1 = date2

isSameDay(date1, date2) == toDateString(date1) = toDateString(date2)

\* events.filter(event => isSameDay(event.startDateTime, date))
StartsOn(evs, date) ==
  SelectSeq(evs, LAMBDA e : isSameDay(e.startDateTime, date))

\* e placed into the sorted sequence after every element that does not compare
\* greater (Array.prototype.sort is stable)
RECURSIVE InsertByStart(_, _)
InsertByStart(sorted, e) ==
  IF sorted = <<>> THEN <<e>>
  ELSE IF DateLT(e.startDateTime, sorted[Len(sorted)].startDateTime)
       THEN Append(InsertByStart(SubSeq(sorted, 1, Len(sorted) - 1), e),
                   sorted[Len(sorted)])
       ELSE Append(sorted, e)

\* .sort((a, b) => a.startDateTime.getTime() - b.startDateTime.getTime())
RECURSIVE SortByStart(_)
SortByStart(evs) ==
  IF evs = <<>> THEN <<>>
  ELSE InsertByStart(SortByStart(SubSeq(evs, 1, Len(evs) - 1)), evs[Len(evs)])

MonthGetEventsForDate(evs, date) == StartsOn(evs, date)

WeekGetEventsForDate(evs, date) == SortByStart(StartsOn(evs, date))

dayEvents(evs, date) == SortByStart(StartsOn(evs, date))

---------------------------------------------------------------------------
(* useEvents *)

OneHour == TimeOfDay(1, 0, 0, 0)

EventDay == MakeDay(2024, 2, 15)

\* start times of the events the service returns
EventStarts ==
  { [day |-> EventDay, ms |-> TimeOfDay(9, 0, 0, 0)],
    [day |-> EventDay, ms |-> TimeOfDay(10, 0, 0, 0)],
    [day |-> EventDay + 1, ms |-> TimeOfDay(9, 0, 0, 0)] }

\* an event as the service returns it: not deleted, one hour long
ServiceEvent(id, start) ==
  [id |-> id, startDateTime |-> start,
   endDateTime |-> [day |-> start.day, ms |-> start.ms + OneHour],
   isDeleted |-> FALSE]

ServiceEvents == { ServiceEvent(id, st) : id \in 1 .. MaxEventId, st \in EventStarts }

Ids(evs) == { evs[i].id : i \in 1 .. Len(evs) }

\* the lists a fetch may answer with: distinct ids, ordered by start time
\* (GetEventsAsync: OrderBy(e => e.StartTime))
ServiceResponses ==
  UNION { { r \in [1 .. n -> ServiceEvents] :
              /\ \A i, j \in 1 .. n : i # j => r[i].id # r[j].id
              /\ \A i \in 1 .. (n - 1) :
                   ~DateLT(r[i + 1].startDateTime, r[i].startDateTime) } :
          n \in 0 .. MaxEventId }

\* the dates of the cells the views show around EventDay
CellDates == { [day |-> d, ms |-> 0] : d \in (EventDay - 1) .. (EventDay + 2) }

InitHook ==
  /\ InitEvents
  /\ currentDate = [day |-> EventDay, ms |-> 0]
  /\ viewMode = Month
  /\ op = "init"
  /\ arg = <<>>
  /\ ret = <<>>
  /\ InitSession

Called(name) ==
  /\ op' = name
  /\ arg' = <<>>
  /\ ret' = <<>>
  /\ UNCHANGED <<currentDate, viewMode, sessionVars>>

\* fetchEvents / fetchEventsByDateRange / searchEvents / filterByCategory up to
\* the await of the service call
fetchStart ==
  /\ pending < MaxPending
  /\ loading' = [isLoading |-> TRUE, error |-> "null"]
  /\ pending' = pending + 1
  /\ UNCHANGED events
  /\ Called("fetchStart")

\* the service call resolves: setEvents(fetched), then loading is cleared
fetchSucceeded(response) ==
  /\ pending > 0
  /\ events' = response
  /\ loading' = [isLoading |-> FALSE, error |-> "null"]
  /\ pending' = pending - 1
  /\ Called("fetchSucceeded")

\* the service call rejects: the catch branch
fetchFailed ==
  /\ pending > 0
  /\ loading' = [isLoading |-> FALSE, error |-> "message"]
  /\ pending' = pending - 1
  /\ UNCHANGED events
  /\ Called("fetchFailed")

\* addEvent with the event the service created (a fresh id)
addEvent(event) ==
  /\ event.id \notin Ids(events)
  /\ events' = Append(events, event)
  /\ UNCHANGED <<loading, pending>>
  /\ Called("addEvent")

updateEvent(updatedEvent) ==
  /\ events' = [i \in 1 .. Len(events) |->
                  IF events[i].id = updatedEvent.id THEN updatedEvent ELSE events[i]]
  /\ UNCHANGED <<loading, pending>>
  /\ Called("updateEvent")

removeEvent(eventId) ==
  /\ events' = SelectSeq(events, LAMBDA e : e.id # eventId)
  /\ UNCHANGED <<loading, pending>>
  /\ Called("removeEvent")

clearError ==
  /\ loading' = [loading EXCEPT !.error = "null"]
  /\ UNCHANGED <<events, pending>>
  /\ Called("clearError")

NextHook ==
  \/ fetchStart
  \/ \E response \in ServiceResponses : fetchSucceeded(response)
  \/ fetchFailed
  \/ \E event \in ServiceEvents : addEvent(event)
  \/ \E event \in ServiceEvents : updateEvent(event)
  \/ \E id \in 1 .. MaxEventId : removeEvent(id)
  \/ clearError

SpecHook == InitHook /\ [][NextHook]_vars

---------------------------------------------------------------------------
(* The views rendering the props they are given *)

Min(a, b) == IF a < b THEN a ELSE b

\* variant: the end hour is exclusive
getEventsForHourEndExclusive(dayEvs, hour) ==
  SelectSeq(dayEvs, LAMBDA e :
    LET eventHour    == getHours(e.startDateTime)
        eventEndHour == getHours(e.endDateTime)
    IN  eventHour <= hour /\ hour < eventEndHour)

\* DayView.getEventsForHour over dayEvents
getEventsForHour(dayEvs, hour) ==
  SelectSeq(dayEvs, LAMBDA e :
    LET eventHour    == getHours(e.startDateTime)
        eventEndHour == getHours(e.endDateTime)
    IN  eventHour <= hour /\ hour <= eventEndHour)

\* variant: the overflow count is shown from three events on
renderDateCellOverflowFromThree(evs, date, isLoading) ==
  LET cellEvents == MonthGetEventsForDate(evs, date)
      n          == Len(cellEvents)
  IN  [dayEvents |-> cellEvents,
       skeleton  |-> isLoading,
       chips     |-> IF isLoading THEN <<>> ELSE SubSeq(cellEvents, 1, Min(3, n)),
       overflow  |-> IF ~isLoading /\ n >= 3 THEN <<n - 3>> ELSE <<>>]

\* MonthView.renderDateCell: what the cell of date shows
renderDateCell(evs, date, isLoading) ==
  LET cellEvents == MonthGetEventsForDate(evs, date)
      n          == Len(cellEvents)
  IN  [dayEvents |-> cellEvents,
       skeleton  |-> isLoading,
       chips     |-> IF isLoading THEN <<>> ELSE SubSeq(cellEvents, 1, Min(3, n)),
       overflow  |-> IF ~isLoading /\ n > 3 THEN <<n - 3>> ELSE <<>>]

ViewEvent(id, startDay, startMs, endDay, endMs, deleted) ==
  [id |-> id,
   startDateTime |-> [day |-> startDay, ms |-> startMs],
   endDateTime |-> [day |-> endDay, ms |-> endMs],
   isDeleted |-> deleted]

\* the events a list handed to the views is made of
ViewEventShapes ==
  << ViewEvent(1, EventDay, TimeOfDay(10, 0, 0, 0), EventDay, TimeOfDay(10, 30, 0, 0), FALSE),
     ViewEvent(2, EventDay, TimeOfDay(10, 0, 0, 0), EventDay, TimeOfDay(11, 5, 0, 0), FALSE),
     ViewEvent(3, EventDay, TimeOfDay(10, 0, 0, 0), EventDay, TimeOfDay(10, 0, 0, 0), FALSE),
     ViewEvent(4, EventDay, TimeOfDay(12, 0, 0, 0), EventDay, TimeOfDay(10, 0, 0, 0), FALSE),
     ViewEvent(5, EventDay, TimeOfDay(10, 0, 0, 0), EventDay - 1, TimeOfDay(12, 0, 0, 0), FALSE),
     ViewEvent(6, EventDay + 1, 0, EventDay + 1, TimeOfDay(1, 0, 0, 0), FALSE),
     ViewEvent(7, EventDay, TimeOfDay(23, 59, 59, 999), EventDay + 1, TimeOfDay(0, 30, 0, 0), FALSE),
     ViewEvent(8, EventDay, TimeOfDay(9, 0, 0, 0), EventDay, TimeOfDay(10, 0, 0, 0), TRUE) >>

Reverse(seq) == [i \in 1 .. Len(seq) |-> seq[Len(seq) + 1 - i]]

\* the events prop: any selection of the shapes, in id order or reversed
ViewEventLists ==
  UNION { { SelectSeq(ViewEventShapes, LAMBDA e : e.id \in S),
            SelectSeq(Reverse(ViewEventShapes), LAMBDA e : e.id \in S) } :
          S \in SUBSET (1 .. Len(ViewEventShapes)) }

\* the currentDate prop
ViewDates ==
  { [day |-> EventDay, ms |-> TimeOfDay(15, 30, 0, 0)], [day |-> EventDay + 1, ms |-> 0] }

\* the dates whose cell or column is rendered, and the Day view's timeSlots
ViewInputs(mode) ==
  IF mode = Day THEN { <<hour>> : hour \in 0 .. 23 }
                ELSE { <<date>> : date \in CellDates }

InitViews ==
  /\ events \in ViewEventLists
  /\ loading \in { [isLoading |-> b, error |-> "null"] : b \in BOOLEAN }
  /\ pending = 0
  /\ currentDate \in ViewDates
  /\ viewMode \in CalendarViewMode
  /\ op = "props"
  /\ arg \in ViewInputs(viewMode)
  /\ ret = <<>>
  /\ InitSession

Rendered(name, output) ==
  /\ op' = name
  /\ ret' = output
  /\ UNCHANGED <<arg, currentDate, viewMode, eventVars, sessionVars>>

\* MonthView renders the cell of date arg[1]
monthCell ==
  /\ viewMode = Month
  /\ Rendered("renderDateCell", <<renderDateCell(events, arg[1], loading.isLoading)>>)

\* WeekView renders the column of date arg[1]
weekColumn ==
  /\ viewMode = Week
  /\ Rendered("renderDateColumn", <<[dayEvents |-> WeekGetEventsForDate(events, arg[1])]>>)

\* DayView computes the events of currentDate
dayList ==
  /\ viewMode = Day
  /\ Rendered("dayEvents", <<[dayEvents |-> dayEvents(events, currentDate)]>>)

\* DayView.getEventsForHour(arg[1])
hourSlot ==
  /\ viewMode = Day
  /\ LET listed == dayEvents(events, currentDate)
     IN  Rendered("getEventsForHour",
                  <<[dayEvents  |-> listed,
                     hourEvents |-> getEventsForHour(listed, arg[1])]>>)

NextViews ==
  \/ monthCell
  \/ weekColumn
  \/ dayList
  \/ hourSlot

SpecViews == InitViews /\ [][NextViews]_vars

---------------------------------------------------------------------------
(* Form validation (ApiService.ts)

   A text is modelled by its length and by whether trim() leaves it empty; an
   optional field is a record whose "defined" flag is FALSE for undefined; a
   colour is the sequence of its characters; an error message is named by
   its kind, "undefined" standing for no error. *)

MaxTitleLength == 203

\* a Date whose getTime() is NaN
InvalidDate == [day |-> 0, ms |-> 0 - 1]

isNaN(date) == date.ms < 0

Text(len, blank) == [len |-> len, blank |-> blank]

Optional(value) == [defined |-> TRUE, value |-> value]

Undefined == [defined |-> FALSE]

required(value) ==
  IF value.len = 0 \/ value.blank THEN "required" ELSE "undefined"

\* variant: a text of exactly max characters is rejected
maxLengthExclusive(value, max) ==
  IF value.len # 0 /\ value.len >= max THEN "maxLength" ELSE "undefined"

maxLength(value, max) ==
  IF value.len # 0 /\ value.len > max THEN "maxLength" ELSE "undefined"

isValidDate(date) ==
  IF isNaN(date) THEN "invalidDate" ELSE "undefined"

\* variant: only an inverted range is rejected
validateDateRangeAllowingEqual(startDate, endDate) ==
  IF isNaN(startDate) \/ isNaN(endDate) THEN "invalidRange"
  ELSE IF DateLT(endDate, startDate) THEN "dateOrder"
  ELSE "undefined"

validateDateRange(startDate, endDate) ==
  IF isNaN(startDate) \/ isNaN(endDate) THEN "invalidRange"
  ELSE IF DateLE(endDate, startDate) THEN "dateOrder"
  ELSE "undefined"

validateEventTitle(title) ==
  IF required(title) # "undefined" THEN required(title)
  ELSE IF maxLength(title, 200) # "undefined" THEN maxLength(title, 200)
  ELSE "undefined"

validateEventDescription(description) ==
  IF ~description.defined \/ description.value.len = 0 THEN "undefined"
  ELSE maxLength(description.value, 1000)

validateEventLocation(location) ==
  IF ~location.defined \/ location.value.len = 0 THEN "undefined"
  ELSE maxLength(location.value, 200)

\* the values of the EventCategory enum, named by their keys
validCategories == {"Meeting", "Task", "Training", "Event", "Personal", "Holiday"}

validateEventCategory(category) ==
  IF ~category.defined \/ category.value = "" THEN "undefined"
  ELSE IF category.value \notin validCategories THEN "category"
  ELSE "undefined"

HexDigits ==
  {"0", "1", "2", "3", "4", "5", "6", "7", "8", "9",
   "A", "B", "C", "D", "E", "F", "a", "b", "c", "d", "e", "f"}

\* /^#([A-Fa-f0-9]{6}|[A-Fa-f0-9]{3})$/.test(chars)
colorPattern(chars) ==
  /\ Len(chars) \in {4, 7}
  /\ chars[1] = "#"
  /\ \A i \in 2 .. Len(chars) : chars[i] \in HexDigits

validateColor(color) ==
  IF ~color.defined \/ color.value = <<>> THEN "undefined"
  ELSE IF ~colorPattern(color.value) THEN "color"
  ELSE "undefined"

\* the errors object: the keys that were assigned, with their messages
ErrorsOf(checks) ==
  [key \in { k \in DOMAIN checks : checks[k] # "undefined" } |-> checks[key]]

FormFields ==
  {"title", "description", "startDateTime", "endDateTime", "location", "category", "color"}

\* variant: validation stops at the first invalid field
validateEventFormFirstErrorOnly(data) ==
  LET all == ErrorsOf(
        [title         |-> validateEventTitle(data.title),
         description   |-> validateEventDescription(data.description),
         startDateTime |-> isValidDate(data.startDateTime),
         endDateTime   |-> IF isValidDate(data.endDateTime) # "undefined"
                           THEN isValidDate(data.endDateTime)
                           ELSE validateDateRange(data.startDateTime, data.endDateTime),
         location      |-> validateEventLocation(data.location),
         category      |-> validateEventCategory(data.category),
         color         |-> validateColor(data.color)])
      order == <<"title", "description", "startDateTime", "endDateTime",
                 "location", "category", "color">>
      failing == SelectSeq(order, LAMBDA k : k \in DOMAIN all)
  IN  IF failing = <<>> THEN all
      ELSE [key \in {failing[1]} |-> all[key]]

validateEventForm(data) ==
  ErrorsOf(
    [title         |-> validateEventTitle(data.title),
     description   |-> validateEventDescription(data.description),
     startDateTime |-> isValidDate(data.startDateTime),
     endDateTime   |-> IF isValidDate(data.endDateTime) # "undefined"
                       THEN isValidDate(data.endDateTime)
                       ELSE validateDateRange(data.startDateTime, data.endDateTime),
     location      |-> validateEventLocation(data.location),
     category      |-> validateEventCategory(data.category),
     color         |-> validateColor(data.color)])

\* variant: only an invalid date counts as an error
hasDateErrors(errors) == {"startDateTime", "endDateTime"} \cap DOMAIN errors # {}

hasValidationErrors(errors) == DOMAIN errors # {}

TitleInputs == { Text(0, TRUE), Text(1, TRUE), Text(1, FALSE), Text(200, FALSE), Text(201, FALSE) }

DescriptionInputs ==
  { Undefined, Optional(Text(0, TRUE)), Optional(Text(1000, FALSE)), Optional(Text(1001, FALSE)) }

LocationInputs ==
  { Undefined, Optional(Text(0, TRUE)), Optional(Text(200, FALSE)), Optional(Text(201, FALSE)) }

TimestampInputs ==
  { InvalidDate,
    [day |-> EventDay, ms |-> TimeOfDay(10, 0, 0, 0)],
    [day |-> EventDay, ms |-> TimeOfDay(11, 0, 0, 0)],
    [day |-> EventDay + 1, ms |-> TimeOfDay(9, 0, 0, 0)] }

CategoryInputs == { Undefined, Optional(""), Optional("Meeting"), Optional("Other") }

ColorInputs ==
  { Undefined,
    Optional(<<>>),
    Optional(<<"#", "2", "1", "9", "6", "F", "3">>),
    Optional(<<"#", "f", "f", "f">>),
    Optional(<<"2", "1", "9", "6", "F", "3">>),
    Optional(<<"#", "F", "F", "F", "F">>),
    Optional(<<"#", "1", "2", "3", "4", "5", "G">>) }

FormInputs ==
  [title : TitleInputs, description : DescriptionInputs,
   startDateTime : TimestampInputs, endDateTime : TimestampInputs,
   location : LocationInputs, category : CategoryInputs, color : ColorInputs]

\* forms whose title runs through every length, the other fields being valid
TitleLengthInputs ==
  { [title |-> title, description |-> Undefined,
     startDateTime |-> [day |-> EventDay, ms |-> TimeOfDay(10, 0, 0, 0)],
     endDateTime |-> [day |-> EventDay, ms |-> TimeOfDay(11, 0, 0, 0)],
     location |-> Undefined, category |-> Undefined, color |-> Undefined] :
    title \in { t \in [len : 0 .. MaxTitleLength, blank : BOOLEAN] : t.len = 0 => t.blank } }

InitForm ==
  /\ arg \in { <<data>> : data \in FormInputs \cup TitleLengthInputs }
  /\ op = "input"
  /\ ret = <<>>
  /\ currentDate = [day |-> EventDay, ms |-> 0]
  /\ viewMode = Month
  /\ InitEvents
  /\ InitSession

applyValidateEventTitle == Apply(1, "validateEventTitle", <<validateEventTitle(arg[1].title)>>)

applyValidateEventForm == Apply(1, "validateEventForm", <<validateEventForm(arg[1])>>)

applyHasValidationErrors ==
  Apply(1, "hasValidationErrors", <<hasValidationErrors(validateEventForm(arg[1]))>>)

NextForm ==
  \/ applyValidateEventTitle
  \/ applyValidateEventForm
  \/ applyHasValidationErrors

SpecForm == InitForm /\ [][NextForm]_vars

---------------------------------------------------------------------------
(* The event store's list operation (backend CalendarEventService)

   A DateTime is a [day, ms] record like a Date; a string compared with
   regard to case is the sequence of its characters; a nullable field is an
   Optional or Undefined record. *)

\* char.ToUpperInvariant over the letters used
ToUpper(c) == IF c = "a" THEN "A" ELSE IF c = "b" THEN "B" ELSE c

\* string.Contains(value) with ordinal comparison, or ignoring case
Contains(text, value, ignoreCase) ==
  LET fold(str) == IF ignoreCase THEN [i \in 1 .. Len(str) |-> ToUpper(str[i])] ELSE str
  IN  \E i \in 1 .. (Len(text) - Len(value) + 1) :
        SubSeq(fold(text), i, i + Len(value) - 1) = fold(value)

\* DateTime.AddMonths: the day of month is clamped to the target month's length
AddMonths(date, months) ==
  LET target  == getMonth(date) + months
      lastDay == getDate([day |-> MakeDay(getFullYear(date), target + 1, 0), ms |-> 0])
  IN  [day |-> MakeDay(getFullYear(date), target, Min(getDate(date), lastDay)),
       ms  |-> date.ms]

\* DateTime.Today
Today == [day |-> EventDay, ms |-> 0]

SetDefaultDateRange(searchDto) ==
  [searchDto EXCEPT
     !.StartDate = IF searchDto.StartDate.defined THEN @ ELSE Optional(AddMonths(Today, 0 - 1)),
     !.EndDate   = IF searchDto.EndDate.defined THEN @ ELSE Optional(AddMonths(Today, 1))]

IsNullOrEmpty(field) == ~field.defined \/ Len(field.value) = 0

MapToResponseDto(e) ==
  [Id |-> e.Id, Title |-> e.Title, StartTime |-> e.StartTime, EndTime |-> e.EndTime,
   Category |-> e.Category, CreatedBy |-> e.CreatedBy]

RECURSIVE InsertByStartTime(_, _)
InsertByStartTime(sorted, e) ==
  IF sorted = <<>> THEN <<e>>
  ELSE IF DateLT(e.StartTime, Head(sorted).StartTime) THEN <<e>> \o sorted
  ELSE <<Head(sorted)>> \o InsertByStartTime(Tail(sorted), e)

RECURSIVE OrderByStartTime(_)
OrderByStartTime(rows) ==
  IF rows = <<>> THEN <<>>
  ELSE InsertByStartTime(OrderByStartTime(SubSeq(rows, 1, Len(rows) - 1)), rows[Len(rows)])

MapRows(rows) == [i \in 1 .. Len(rows) |-> MapToResponseDto(rows[i])]

\* SampleData.GetSampleEventsInRange over the sample list
SampleDataGetSampleEventsInRange(rows, startDate, endDate) ==
  SelectSeq(rows, LAMBDA e :
    /\ e.StartTime.day >= startDate.day
    /\ e.StartTime.day <= endDate.day
    /\ ~e.IsDeleted)

\* CalendarEventService.GetSampleEventsInRange
GetSampleEventsInRange(rows, searchDto) ==
  LET sampleEvents == SampleDataGetSampleEventsInRange(
                        rows, searchDto.StartDate.value, searchDto.EndDate.value)
      filteredEvents == SelectSeq(sampleEvents, LAMBDA e :
        /\ IsNullOrEmpty(searchDto.Category) \/ e.Category = searchDto.Category.value
        /\ IsNullOrEmpty(searchDto.CreatedBy) \/ e.CreatedBy = searchDto.CreatedBy.value
        /\ IsNullOrEmpty(searchDto.TitleSearch)
             \/ Contains(e.Title, searchDto.TitleSearch.value, TRUE))
  IN  MapRows(OrderByStartTime(filteredEvents))

\* the query GetEventsAsync builds on _context.Events
QueryEvents(rows, searchDto) ==
  LET query == SelectSeq(rows, LAMBDA e :
        /\ ~e.IsDeleted
        /\ e.StartTime.day >= searchDto.StartDate.value.day
        /\ e.StartTime.day <= searchDto.EndDate.value.day
        /\ IsNullOrEmpty(searchDto.Category) \/ e.Category = searchDto.Category.value
        /\ IsNullOrEmpty(searchDto.CreatedBy) \/ e.CreatedBy = searchDto.CreatedBy.value
        /\ IsNullOrEmpty(searchDto.TitleSearch)
             \/ Contains(e.Title, searchDto.TitleSearch.value, FALSE))
  IN  MapRows(OrderByStartTime(query))

GetEventsAsync(rows, searchDto, sampleData) ==
  LET dto == SetDefaultDateRange(searchDto)
  IN  IF sampleData THEN GetSampleEventsInRange(rows, dto)
      ELSE QueryEvents(rows, dto)

StoredEvent(id, title, startDay, startMs, category, createdBy, deleted) ==
  [Id |-> id, Title |-> title, StartTime |-> [day |-> startDay, ms |-> startMs],
   EndTime |-> [day |-> startDay + 1, ms |-> startMs],
   Category |-> category, CreatedBy |-> createdBy, IsDeleted |-> deleted]

\* the events the table or the sample list is made of (distinct start times)
StoredEventShapes ==
  << StoredEvent(1, <<"A", "b">>, EventDay, TimeOfDay(9, 0, 0, 0), "Meeting", "alice", FALSE),
     StoredEvent(2, <<"a", "b">>, EventDay + 1, TimeOfDay(20, 0, 0, 0), "Task", "bob", FALSE),
     StoredEvent(3, <<"B">>, EventDay - 1, TimeOfDay(23, 59, 0, 0), "Meeting", "alice", FALSE),
     StoredEvent(4, <<"A", "b">>, EventDay + 2, 0, "Meeting", "bob", FALSE),
     StoredEvent(5, <<"a", "b">>, EventDay, TimeOfDay(10, 0, 0, 0), "Meeting", "alice", TRUE),
     StoredEvent(6, <<"b", "a">>, MakeDay(2024, 3, 15), TimeOfDay(23, 0, 0, 0), "Task", "alice", FALSE),
     StoredEvent(7, <<"B", "a">>, MakeDay(2024, 3, 16), 0, "Meeting", "alice", FALSE) >>

StoredEventLists ==
  { SelectSeq(Reverse(StoredEventShapes), LAMBDA e : e.Id \in S) :
    S \in SUBSET (1 .. Len(StoredEventShapes)) }

SearchDtos ==
  [StartDate   : { Undefined, Optional([day |-> EventDay, ms |-> TimeOfDay(12, 0, 0, 0)]) },
   EndDate     : { Undefined, Optional([day |-> EventDay + 1, ms |-> TimeOfDay(8, 0, 0, 0)]) },
   Category    : { Undefined, Optional(""), Optional("Meeting") },
   CreatedBy   : { Undefined, Optional("alice") },
   TitleSearch : { Undefined, Optional(<<"a", "b">>), Optional(<<"B">>) }]

InitStore ==
  /\ events \in StoredEventLists
  /\ arg \in { <<searchDto, sampleData>> :
               searchDto \in SearchDtos, sampleData \in BOOLEAN }
  /\ op = "request"
  /\ ret = <<>>
  /\ loading = [isLoading |-> FALSE, error |-> "null"]
  /\ pending = 0
  /\ currentDate = Today
  /\ viewMode = Month
  /\ InitSession

\* GetEventsAsync(arg[1]) on a service constructed with _useSampleData = arg[2]
callGetEventsAsync ==
  /\ op' = "GetEventsAsync"
  /\ ret' = <<GetEventsAsync(events, arg[1], arg[2])>>
  /\ UNCHANGED <<arg, currentDate, viewMode, eventVars, sessionVars>>

NextStore == callGetEventsAsync

SpecStore == InitStore /\ [][NextStore]_vars

---------------------------------------------------------------------------
(* The backend service behind its controller (EventsController,
   CalendarEventService): the Events table is the variable events, the
   sample list is regenerated by every call of SampleData.GetSampleEvents(). *)

\* number of rows the Events table may hold
MaxRows == 2

\* variant: an end equal to the start is accepted
IsValidDateRangeAllowingEqual(dto) == DateLE(dto.StartTime, dto.EndTime)

\* CalendarEventCreateDto / CalendarEventUpdateDto .IsValidDateRange()
IsValidDateRange(dto) == DateLT(dto.StartTime, dto.EndTime)

\* SampleData.GetSampleEvents(): a new list on every call
GetSampleEvents ==
  << [Id |-> 1, Title |-> <<"A", "b">>,
      StartTime |-> [day |-> Today.day, ms |-> TimeOfDay(10, 0, 0, 0)],
      EndTime |-> [day |-> Today.day, ms |-> TimeOfDay(11, 0, 0, 0)],
      Category |-> "Meeting", CreatedBy |-> "alice", IsDeleted |-> FALSE],
     [Id |-> 2, Title |-> <<"B">>,
      StartTime |-> [day |-> Today.day + 1, ms |-> TimeOfDay(9, 0, 0, 0)],
      EndTime |-> [day |-> Today.day + 1, ms |-> TimeOfDay(10, 30, 0, 0)],
      Category |-> "Task", CreatedBy |-> "alice", IsDeleted |-> FALSE] >>

\* the events the service reads: the table, or the sample list
StoredEvents(rows, sampleData) == IF sampleData THEN GetSampleEvents ELSE rows

\* variant: the lookup by id also finds deleted rows
FindEventIncludingDeleted(rows, id) == SelectSeq(rows, LAMBDA e : e.Id = id)

\* FirstOrDefault(e => e.Id == id && !e.IsDeleted): <<>> for null
FindEvent(rows, id) == SelectSeq(rows, LAMBDA e : e.Id = id /\ ~e.IsDeleted)

GetEventByIdAsync(rows, id, sampleData) ==
  MapRows(FindEvent(StoredEvents(rows, sampleData), id))

\* the entity CreateEventAsync builds from the DTO
NewEvent(id, createDto) ==
  [Id |-> id, Title |-> createDto.Title,
   StartTime |-> createDto.StartTime, EndTime |-> createDto.EndTime,
   Category |-> createDto.Category, CreatedBy |-> createDto.CreatedBy,
   IsDeleted |-> FALSE]

\* the assignments UpdateEventAsync makes to the entity
UpdatedEvent(e, updateDto) ==
  [e EXCEPT !.Title = updateDto.Title,
            !.StartTime = updateDto.StartTime, !.EndTime = updateDto.EndTime,
            !.Category = updateDto.Category]

\* CreateEventAsync: the table afterwards and the outcome; dummyId is the
\* value of new Random().Next(1000, 9999)
CreateEventAsync(rows, createDto, sampleData, dummyId) ==
  IF ~IsValidDateRange(createDto)
  THEN [rows |-> rows, thrown |-> "ArgumentException", value |-> <<>>]
  ELSE IF sampleData
  THEN [rows |-> rows, thrown |-> "none",
        value |-> <<MapToResponseDto(NewEvent(dummyId, createDto))>>]
  ELSE LET eventEntity == NewEvent(Len(rows) + 1, createDto)
       IN  [rows |-> Append(rows, eventEntity), thrown |-> "none",
            value |-> <<MapToResponseDto(eventEntity)>>]

\* UpdateEventAsync: value <<>> is the null result
UpdateEventAsync(rows, id, updateDto, sampleData) ==
  IF ~IsValidDateRange(updateDto)
  THEN [rows |-> rows, thrown |-> "ArgumentException", value |-> <<>>]
  ELSE LET found == FindEvent(StoredEvents(rows, sampleData), id)
       IN  IF found = <<>> THEN [rows |-> rows, thrown |-> "none", value |-> <<>>]
           ELSE IF sampleData
           THEN [rows |-> rows, thrown |-> "none",
                 value |-> <<MapToResponseDto(UpdatedEvent(found[1], updateDto))>>]
           ELSE [rows |-> [i \in 1 .. Len(rows) |->
                             IF rows[i].Id = id /\ ~rows[i].IsDeleted
                             THEN UpdatedEvent(rows[i], updateDto) ELSE rows[i]],
                 thrown |-> "none",
                 value |-> <<MapToResponseDto(UpdatedEvent(found[1], updateDto))>>]

\* DeleteEventAsync: the table afterwards and the boolean returned
DeleteEventAsync(rows, id, sampleData) ==
  LET found == FindEvent(StoredEvents(rows, sampleData), id)
  IN  IF found = <<>> THEN [rows |-> rows, value |-> FALSE]
      ELSE IF sampleData THEN [rows |-> rows, value |-> TRUE]
      ELSE [rows |-> [i \in 1 .. Len(rows) |->
                        IF rows[i].Id = id /\ ~rows[i].IsDeleted
                        THEN [rows[i] EXCEPT !.IsDeleted = TRUE] ELSE rows[i]],
            value |-> TRUE]

GetEventCountByDateAsync(rows, date, sampleData) ==
  Len(SelectSeq(StoredEvents(rows, sampleData),
                LAMBDA e : e.StartTime.day = date.day /\ ~e.IsDeleted))

\* the dictionary category -> count (every stored category is non-null here)
GetEventStatsByCategory(rows, startDate, endDate, sampleData) ==
  LET selected == SelectSeq(StoredEvents(rows, sampleData), LAMBDA e :
                    /\ e.StartTime.day >= startDate.day
                    /\ e.StartTime.day <= endDate.day
                    /\ ~e.IsDeleted)
  IN  [key \in { selected[i].Category : i \in 1 .. Len(selected) } |->
         Len(SelectSeq(selected, LAMBDA e : e.Category = key))]

\* request bodies: equal, valid and inverted date ranges
EventDtos ==
  [Title : { <<"A", "b">> },
   StartTime : { [day |-> Today.day, ms |-> TimeOfDay(10, 0, 0, 0)],
                 [day |-> Today.day, ms |-> TimeOfDay(11, 0, 0, 0)] },
   EndTime : { [day |-> Today.day, ms |-> TimeOfDay(10, 0, 0, 0)],
               [day |-> Today.day + 1, ms |-> TimeOfDay(9, 0, 0, 0)] },
   Category : { "Meeting", "Task" },
   CreatedBy : { "alice" }]

\* ids a request may name: the rows, the sample events and one unknown id
RequestIds == 1 .. (MaxRows + 1)

DummyIds == { 1000, 9998 }

NoFilter ==
  [StartDate |-> Undefined, EndDate |-> Undefined, Category |-> Undefined,
   CreatedBy |-> Undefined, TitleSearch |-> Undefined]

InitService ==
  /\ events = <<>>
  /\ loading = [isLoading |-> FALSE, error |-> "null"]
  /\ pending = 0
  /\ inflight = <<>>
  /\ useSampleData \in BOOLEAN
  /\ form = InitialForm
  /\ dialog = [open |-> FALSE, event |-> [id |-> 0]]
  /\ currentDate = Today
  /\ viewMode = Month
  /\ op = "start"
  /\ arg = <<>>
  /\ ret = <<>>

\* a request handled: the table afterwards, the status code and the body
Handled(name, input, rows, status, body) ==
  /\ op' = name
  /\ arg' = input
  /\ ret' = <<status, body>>
  /\ events' = rows
  /\ UNCHANGED <<currentDate, viewMode, loading, pending, sessionVars>>

\* EventsController.CreateEvent (POST), the model state being valid
CreateEvent(createDto, dummyId) ==
  /\ Len(events) < MaxRows \/ useSampleData \/ ~IsValidDateRange(createDto)
  /\ IF ~IsValidDateRange(createDto)
     THEN Handled("CreateEvent", <<createDto>>, events, 400, <<>>)
     ELSE LET done == CreateEventAsync(events, createDto, useSampleData, dummyId)
          IN  IF done.thrown = "ArgumentException"
              THEN Handled("CreateEvent", <<createDto>>, done.rows, 400, <<>>)
              ELSE Handled("CreateEvent", <<createDto>>, done.rows, 201, done.value)

\* EventsController.UpdateEvent (PUT), the model state being valid
UpdateEvent(id, updateDto) ==
  IF ~IsValidDateRange(updateDto)
  THEN Handled("UpdateEvent", <<id, updateDto>>, events, 400, <<>>)
  ELSE LET done == UpdateEventAsync(events, id, updateDto, useSampleData)
       IN  IF done.thrown = "ArgumentException"
           THEN Handled("UpdateEvent", <<id, updateDto>>, done.rows, 400, <<>>)
           ELSE IF done.value = <<>>
           THEN Handled("UpdateEvent", <<id, updateDto>>, done.rows, 404, <<>>)
           ELSE Handled("UpdateEvent", <<id, updateDto>>, done.rows, 200, done.value)

\* EventsController.DeleteEvent (DELETE)
DeleteEvent(id) ==
  LET done == DeleteEventAsync(events, id, useSampleData)
  IN  IF done.value THEN Handled("DeleteEvent", <<id>>, done.rows, 204, <<>>)
      ELSE Handled("DeleteEvent", <<id>>, done.rows, 404, <<>>)

\* EventsController.GetEvent (GET by id)
GetEvent(id) ==
  LET eventDto == GetEventByIdAsync(events, id, useSampleData)
  IN  IF eventDto = <<>> THEN Handled("GetEvent", <<id>>, events, 404, <<>>)
      ELSE Handled("GetEvent", <<id>>, events, 200, eventDto)

\* EventsController.GetEvents (GET list) without filters
GetEvents ==
  Handled("GetEvents", <<NoFilter>>, events, 200,
          GetEventsAsync(events, NoFilter, useSampleData))

\* EventsController.GetEventCount
GetEventCount(date) ==
  Handled("GetEventCount", <<date>>, events, 200,
          GetEventCountByDateAsync(events, date, useSampleData))

\* EventsController.GetEventStats
GetEventStats(startDate, endDate) ==
  Handled("GetEventStats", <<startDate, endDate>>, events, 200,
          GetEventStatsByCategory(events, startDate, endDate, useSampleData))

NextService ==
  \/ \E createDto \in EventDtos, dummyId \in DummyIds : CreateEvent(createDto, dummyId)
  \/ \E id \in RequestIds, updateDto \in EventDtos : UpdateEvent(id, updateDto)
  \/ \E id \in RequestIds : DeleteEvent(id)
  \/ \E id \in RequestIds : GetEvent(id)
  \/ GetEvents
  \/ \E date \in { Today, [day |-> Today.day + 1, ms |-> 0] } : GetEventCount(date)
  \/ GetEventStats(Today, [day |-> Today.day + 1, ms |-> TimeOfDay(8, 0, 0, 0)])

SpecService == InitService /\ [][NextService]_vars

---------------------------------------------------------------------------
(* The event dialog and its form hook (EventDialog, useEventForm), opened and
   closed by CalendarApp; the requests sent to the event service wait in
   inflight until they are answered. *)

\* the dialog closed: open = false, selectedEvent = null
DialogClosed == [open |-> FALSE, event |-> [id |-> 0]]

isEditing == dialog.event.id # 0

DefaultColor == <<"#", "2", "1", "9", "6", "F", "3">>

\* the events shown in the calendar when the dialog model starts: one with
\* every optional field filled in, one with the optional fields empty or absent
DialogEvents ==
  << [id |-> 1, title |-> Text(5, FALSE),
      description |-> Optional(Text(7, FALSE)),
      startDateTime |-> [day |-> EventDay, ms |-> TimeOfDay(10, 0, 0, 0)],
      endDateTime |-> [day |-> EventDay, ms |-> TimeOfDay(11, 0, 0, 0)],
      location |-> Optional(Text(3, FALSE)),
      category |-> Optional("Meeting"),
      color |-> Optional(<<"#", "F", "4", "4", "3", "3", "6">>),
      updatedAt |-> 0, isDeleted |-> FALSE],
     [id |-> 2, title |-> Text(6, FALSE),
      description |-> Optional(Text(0, TRUE)),
      startDateTime |-> [day |-> EventDay + 1, ms |-> TimeOfDay(9, 0, 0, 0)],
      endDateTime |-> [day |-> EventDay + 1, ms |-> TimeOfDay(10, 0, 0, 0)],
      location |-> Undefined,
      category |-> Undefined,
      color |-> Undefined,
      updatedAt |-> 0, isDeleted |-> FALSE] >>

\* a || b for a text, an optional text, an optional string or colour
OrText(a, b) == IF a.len = 0 THEN b ELSE a

OrOptionalText(a, b) == IF ~a.defined \/ a.value.len = 0 THEN b ELSE a

OrOptional(a, b) == IF ~a.defined \/ Len(a.value) = 0 THEN b ELSE a

\* useEventForm.setFormDataForEdit: the new formData (a Date is never falsy)
setFormDataForEdit(prev, eventData) ==
  [title         |-> OrText(eventData.title, prev.title),
   description   |-> OrOptionalText(eventData.description, prev.description),
   startDateTime |-> eventData.startDateTime,
   endDateTime   |-> eventData.endDateTime,
   location      |-> OrOptionalText(eventData.location, prev.location),
   category      |-> OrOptional(eventData.category, prev.category),
   color         |-> OrOptional(eventData.color, prev.color)]

\* useEventForm.resetForm with new Date() = now
resetForm(now) ==
  [formData |->
     [title         |-> Text(0, TRUE),
      description   |-> Optional(Text(0, TRUE)),
      startDateTime |-> now,
      endDateTime   |-> setHours(now, getHours(now) + 1, 0, 0, 0),
      location      |-> Optional(Text(0, TRUE)),
      category      |-> Optional(""),
      color         |-> Optional(DefaultColor)],
   validationErrors |-> NoErrors,
   loading |-> [isLoading |-> FALSE, error |-> "null"]]

\* the number of saves the dialog model follows
MaxSaves == 1

\* the number of create or update requests awaiting their answer
MaxSubmits == 1

\* the service's clock, in saves: the latest updatedAt it has handed out
RECURSIVE ServiceClock(_)
ServiceClock(list) ==
  IF list = <<>> THEN 0
  ELSE LET rest == ServiceClock(Tail(list))
       IN  IF Head(list).updatedAt > rest THEN Head(list).updatedAt ELSE rest

\* the event the service answers a create or update request with
SavedEvent(id, data, updatedAt) ==
  [id |-> id, title |-> data.title, description |-> data.description,
   startDateTime |-> data.startDateTime, endDateTime |-> data.endDateTime,
   location |-> data.location, category |-> data.category, color |-> data.color,
   updatedAt |-> updatedAt, isDeleted |-> FALSE]

\* what the user may type or pick in a field
FieldInputs ==
  { <<"title", Text(0, TRUE)>>, <<"title", Text(4, FALSE)>> }

InitDialog ==
  /\ events = DialogEvents
  /\ loading = [isLoading |-> FALSE, error |-> "null"]
  /\ pending = 0
  /\ InitSession
  /\ currentDate = [day |-> EventDay, ms |-> 0]
  /\ viewMode = Month
  /\ op = "mount"
  /\ arg = <<>>
  /\ ret = <<>>

Did(name, input, output) ==
  /\ op' = name
  /\ arg' = input
  /\ ret' = output
  /\ UNCHANGED <<currentDate, viewMode, loading, pending, useSampleData>>

\* CalendarApp.handleCreateEvent, then EventDialog's open effect: resetForm
handleCreateEvent ==
  /\ ~dialog.open
  /\ dialog' = [open |-> TRUE, event |-> [id |-> 0]]
  /\ form' = resetForm(FormClock)
  /\ UNCHANGED <<events, inflight>>
  /\ Did("handleCreateEvent", <<>>, <<>>)

\* CalendarApp.handleEditEvent(event), then EventDialog's open effect:
\* setFormDataForEdit with the event's fields
handleEditEvent(event) ==
  /\ ~dialog.open
  /\ dialog' = [open |-> TRUE, event |-> event]
  /\ form' = [form EXCEPT !.formData = setFormDataForEdit(form.formData, event)]
  /\ UNCHANGED <<events, inflight>>
  /\ Did("handleEditEvent", <<event>>, <<>>)

\* EventDialog.handleClose: clearError, then CalendarApp.handleCloseEventDialog
handleClose ==
  /\ dialog.open
  /\ dialog' = DialogClosed
  /\ form' = [form EXCEPT !.loading.error = "null"]
  /\ UNCHANGED <<events, inflight>>
  /\ Did("handleClose", <<>>, <<>>)

\* useEventForm.updateFormData(field, value); the fields are disabled while
\* the form is loading
updateFormData(field, value) ==
  /\ dialog.open
  /\ ~form.loading.isLoading
  /\ form' = [form EXCEPT
       !.formData = [@ EXCEPT ![field] = value],
       !.validationErrors =
          [key \in (DOMAIN form.validationErrors) \ {field} |-> form.validationErrors[key]]]
  /\ UNCHANGED <<events, dialog, inflight>>
  /\ Did("updateFormData", <<field, value>>, <<>>)

\* EventDialog.handleSubmit up to the await of the service call:
\* useEventForm.createEvent / updateEvent(event.id)
handleSubmit ==
  /\ dialog.open
  /\ ~form.loading.isLoading
  /\ LET name   == IF isEditing THEN "updateEvent" ELSE "createEvent"
         errors == validateEventForm(form.formData)
     IN  IF hasValidationErrors(errors)
         THEN /\ form' = [form EXCEPT !.validationErrors = errors]
              /\ UNCHANGED <<events, dialog, inflight>>
              /\ Did(name, <<form.formData>>, <<"null">>)
         ELSE /\ Len(inflight) < MaxSubmits
              /\ form' = [form EXCEPT !.validationErrors = errors,
                                      !.loading = [isLoading |-> TRUE, error |-> "null"]]
              /\ inflight' = Append(inflight,
                   [request |-> name, id |-> dialog.event.id, data |-> form.formData])
              /\ UNCHANGED <<events, dialog>>
              /\ Did(name, <<form.formData>>, <<"awaiting">>)

\* the create request is answered: resetForm, then
\* CalendarApp.handleEventCreated (addEvent, close the dialog)
createResolved ==
  /\ inflight # <<>>
  /\ Head(inflight).request = "createEvent"
  /\ ServiceClock(events) < MaxSaves
  /\ LET createdEvent == SavedEvent(Len(events) + 1, Head(inflight).data,
                                    ServiceClock(events) + 1)
     IN  /\ inflight' = Tail(inflight)
         /\ form' = resetForm(FormClock)
         /\ events' = Append(events, createdEvent)
         /\ dialog' = DialogClosed
         /\ Did("createResolved", <<>>, <<createdEvent>>)

\* the update request is answered: CalendarApp.handleEventUpdated
\* (updateEvent of useEvents, close the dialog)
updateResolved ==
  /\ inflight # <<>>
  /\ Head(inflight).request = "updateEvent"
  /\ ServiceClock(events) < MaxSaves
  /\ LET updatedEvent == SavedEvent(Head(inflight).id, Head(inflight).data,
                                    ServiceClock(events) + 1)
     IN  /\ inflight' = Tail(inflight)
         /\ form' = [form EXCEPT !.loading = [isLoading |-> FALSE, error |-> "null"]]
         /\ events' = [i \in 1 .. Len(events) |->
                         IF events[i].id = updatedEvent.id THEN updatedEvent ELSE events[i]]
         /\ dialog' = DialogClosed
         /\ Did("updateResolved", <<>>, <<updatedEvent>>)

\* the create or update request fails: the catch branch
submitRejected ==
  /\ inflight # <<>>
  /\ inflight' = Tail(inflight)
  /\ form' = [form EXCEPT !.loading = [isLoading |-> FALSE, error |-> "message"]]
  /\ UNCHANGED <<events, dialog>>
  /\ Did("submitRejected", <<>>, <<"null">>)

\* EventDialog.handleDelete, confirmed by the user and answered by the
\* service: CalendarApp.handleEventDeleted (removeEvent, close the dialog)
handleDelete ==
  /\ dialog.open
  /\ isEditing
  /\ ~form.loading.isLoading
  /\ events' = SelectSeq(events, LAMBDA e : e.id # dialog.event.id)
  /\ dialog' = DialogClosed
  /\ UNCHANGED <<form, inflight>>
  /\ Did("handleDelete", <<dialog.event.id>>, <<>>)

NextDialog ==
  \/ handleCreateEvent
  \/ \E i \in 1 .. Len(events) : handleEditEvent(events[i])
  \/ handleClose
  \/ \E input \in FieldInputs : updateFormData(input[1], input[2])
  \/ handleSubmit
  \/ handleDelete
  \/ createResolved
  \/ updateResolved
  \/ submitRejected

SpecDialog == InitDialog /\ [][NextDialog]_vars

---------------------------------------------------------------------------
(* CalendarApp: the view hook, the events hook and the effect that fetches
   the events of the period shown. The requests sent wait in inflight, here a
   bag of requests, until the service answers them, in any order. *)

\* the anchor days the app is followed over: today, the day after, the same
\* weekday a week later and the same date a month later
AppStops == { EventDay, EventDay + 1, EventDay + 7, MakeDay(2024, 3, 15) }

InAppWindow(date) == date.day \in AppStops

\* the events the service holds while the app runs
AppEvents ==
  << ServiceEvent(1, [day |-> EventDay, ms |-> TimeOfDay(9, 0, 0, 0)]),
     ServiceEvent(2, [day |-> EventDay + 1, ms |-> TimeOfDay(9, 0, 0, 0)]),
     ServiceEvent(3, [day |-> MakeDay(2024, 3, 2), ms |-> TimeOfDay(10, 0, 0, 0)]) >>

\* the cells the user clicks
AppDateClicks == { [day |-> EventDay + 1, ms |-> 0], [day |-> MakeDay(2024, 3, 15), ms |-> 0] }

AppClock == NewDateTime(2024, 2, 15, 9, 30, 0, 0)

AllRequest == [request |-> "all"]

\* the request fetchEventsByDateRange(getPeriodStart(), getPeriodEnd()) sends
RangeRequest(date, mode) ==
  [request |-> "range",
   startDate |-> getPeriodStart(date, mode),
   endDate |-> getPeriodEnd(date, mode)]

\* what the service answers a request with
Answer(request) ==
  IF request.request = "all" THEN AppEvents
  ELSE SelectSeq(AppEvents, LAMBDA e :
         /\ DateLE(request.startDate, e.startDateTime)
         /\ DateLE(e.startDateTime, request.endDate))

\* variant: the period callbacks depend on the anchor date only
effectRunsOnDateOnly(dateSet, mode) == dateSet

\* whether the period callbacks change identity, so that the effect runs:
\* setCurrentDate always stores a new Date object, setViewMode(mode) with the
\* mode already shown changes nothing
effectRuns(dateSet, mode) == dateSet \/ mode # viewMode

\* variant: a failed fetch leaves the loading flag set
loadingAfterFailureStillLoading(message) == [isLoading |-> TRUE, error |-> message]

\* the loading state the catch branch of a fetch sets
loadingAfterFailure(message) == [isLoading |-> FALSE, error |-> message]

Sent(request) == SetToBag({request})

\* the state once the mount effects have run: fetchEvents of useEvents, then
\* the range fetch of CalendarApp
InitApp ==
  /\ currentDate = getToday(AppClock)
  /\ viewMode = Month
  /\ events = <<>>
  /\ loading = [isLoading |-> TRUE, error |-> "null"]
  /\ inflight = Sent(AllRequest) (+) Sent(RangeRequest(getToday(AppClock), Month))
  /\ pending = 2
  /\ useSampleData = FALSE
  /\ form = InitialForm
  /\ dialog = [open |-> FALSE, event |-> [id |-> 0]]
  /\ op = "mount"
  /\ arg = <<>>
  /\ ret = <<>>

\* a view transition followed by the effect of CalendarApp
ViewTransition(name, input, date, dateSet, mode) ==
  /\ InAppWindow(date)
  /\ currentDate' = date
  /\ viewMode' = mode
  /\ IF effectRuns(dateSet, mode)
     THEN /\ BagCardinality(inflight) < MaxPending
          /\ loading' = [isLoading |-> TRUE, error |-> "null"]
          /\ inflight' = inflight (+) Sent(RangeRequest(date, mode))
     ELSE UNCHANGED <<loading, inflight>>
  /\ pending' = BagCardinality(inflight')
  /\ op' = name
  /\ arg' = input
  /\ ret' = <<>>
  /\ UNCHANGED <<events, useSampleData, form, dialog>>

\* CalendarHeader's buttons are disabled while loading
onPrevious ==
  /\ ~loading.isLoading
  /\ ViewTransition("goToPrevious", <<>>, previousDate(currentDate, viewMode), TRUE, viewMode)

onNext ==
  /\ ~loading.isLoading
  /\ ViewTransition("goToNext", <<>>, nextDate(currentDate, viewMode), TRUE, viewMode)

onToday ==
  /\ ~loading.isLoading
  /\ ViewTransition("goToToday", <<AppClock>>, getToday(AppClock), TRUE, viewMode)

onViewModeChange(mode) ==
  /\ ~loading.isLoading
  /\ ViewTransition("changeViewMode", <<mode>>, currentDate, FALSE, mode)

\* CalendarApp.handleDateClick: goToDate(date)
handleDateClick(date) ==
  ViewTransition("goToDate", <<date>>, date, TRUE, viewMode)

\* a request is answered: setEvents(fetched), loading cleared
fetchResolved(request) ==
  /\ events' = Answer(request)
  /\ loading' = [isLoading |-> FALSE, error |-> "null"]
  /\ inflight' = inflight (-) Sent(request)
  /\ pending' = BagCardinality(inflight')
  /\ op' = "fetchResolved"
  /\ arg' = <<>>
  /\ ret' = <<"fulfilled">>
  /\ UNCHANGED <<currentDate, viewMode, useSampleData, form, dialog>>

\* a request fails: the catch branch stores the message and returns, so the
\* promise of the fetch is fulfilled all the same
fetchRejected(request) ==
  /\ loading' = loadingAfterFailure("message")
  /\ inflight' = inflight (-) Sent(request)
  /\ pending' = BagCardinality(inflight')
  /\ op' = "fetchRejected"
  /\ arg' = <<>>
  /\ ret' = <<"fulfilled">>
  /\ UNCHANGED <<currentDate, viewMode, events, useSampleData, form, dialog>>

\* CalendarApp.handleCloseError: clearError of useEvents
handleCloseError ==
  /\ loading.error # "null"
  /\ loading' = [loading EXCEPT !.error = "null"]
  /\ op' = "clearError"
  /\ arg' = <<>>
  /\ ret' = <<>>
  /\ UNCHANGED <<currentDate, viewMode, events, inflight, pending,
                 useSampleData, form, dialog>>

NextApp ==
  \/ onPrevious
  \/ onNext
  \/ onToday
  \/ \E mode \in CalendarViewMode : onViewModeChange(mode)
  \/ \E date \in AppDateClicks : handleDateClick(date)
  \/ \E request \in BagToSet(inflight) : fetchResolved(request)
  \/ \E request \in BagToSet(inflight) : fetchRejected(request)
  \/ handleCloseError

SpecApp == InitApp /\ [][NextApp]_vars

---------------------------------------------------------------------------
(* Properties of the view state (checked under Spec) *)

\* months since year 0 of a Date's calendar month
MonthIndex(date) == getFullYear(date) * 12 + getMonth(date)

\* C1: after any sequence of transitions, from any initial anchor (with any
\* time of day), getPeriodStart() <= anchorDate <= getPeriodEnd() for the
\* current mode.
C1_PeriodContainsAnchor ==
  /\ DateLE(getPeriodStart(currentDate, viewMode), currentDate)
  /\ DateLE(currentDate, getPeriodEnd(currentDate, viewMode))

\* C2: in Month mode goToNext() moves the anchor to a date in the calendar
\* month immediately following the anchor's month, for every day-of-month.
C2_NextIsFollowingMonth ==
  [][(op' = "goToNext" /\ viewMode = Month)
       => MonthIndex(currentDate') = MonthIndex(currentDate) + 1]_vars

\* the anchor has moved by n units of mode: n calendar months, 7n days or n days,
\* keeping the time of day
ShiftedBy(old, new, mode, n) ==
  /\ new.ms = old.ms
  /\ mode = Month => MonthIndex(new) = MonthIndex(old) + n
  /\ mode = Week => new.day = old.day + 7 * n
  /\ mode = Day => new.day = old.day + n

\* C3: goToPrevious()/goToNext() shift the anchor backward/forward by exactly
\* one unit of the mode current at the time of the call (one calendar month,
\* 7 days, 1 day), also right after a changeViewMode.
C3_ShiftByOneUnit ==
  [][/\ op' = "goToNext" => ShiftedBy(currentDate, currentDate', viewMode, 1)
     /\ op' = "goToPrevious" => ShiftedBy(currentDate, currentDate', viewMode, -1)]_vars

\* C4: changeViewMode(m) sets mode to m and leaves the anchor unchanged;
\* goToDate(d), goToToday(), goToPrevious() and goToNext() leave the mode
\* unchanged; goToDate sets the anchor to d, goToToday to today (midnight of
\* the day the clock reads).
C4_FrameEffects ==
  [][/\ op' = "changeViewMode" => (viewMode' = arg'[1] /\ currentDate' = currentDate)
     /\ op' = "goToDate" => (currentDate' = arg'[1] /\ viewMode' = viewMode)
     /\ op' = "goToToday" =>
          (currentDate' = [day |-> arg'[1].day, ms |-> 0] /\ viewMode' = viewMode)
     /\ op' \in {"goToPrevious", "goToNext"} => viewMode' = viewMode]_vars

\* switching from Month to Day while anchored on the 15th shows the 15th
C4_Witness ==
  /\ op = "changeViewMode"
  /\ viewMode = Day
  /\ currentDate = NewDate(2024, 2, 15)

\* C10: getPeriodStart()/getPeriodEnd() return monthStart/monthEnd of the
\* anchor in Month mode, weekStart/weekEnd in Week mode and the anchor's day at
\* 00:00:00.000 / 23:59:59.999 in Day mode; neither changes anchor or mode.
C10_PeriodBounds ==
  [][/\ op' = "getPeriodStart" =>
          /\ currentDate' = currentDate /\ viewMode' = viewMode
          /\ viewMode = Month => ret' = <<getMonthStart(currentDate)>>
          /\ viewMode = Week => ret' = <<getWeekStart(currentDate)>>
          /\ viewMode = Day => ret' = <<[day |-> currentDate.day, ms |-> 0]>>
     /\ op' = "getPeriodEnd" =>
          /\ currentDate' = currentDate /\ viewMode' = viewMode
          /\ viewMode = Month => ret' = <<getMonthEnd(currentDate)>>
          /\ viewMode = Week => ret' = <<getWeekEnd(currentDate)>>
          /\ viewMode = Day => ret' = <<[day |-> currentDate.day, ms |-> MsPerDay - 1]>>]_vars

\* anchor 2024-03-15 in Month mode: the period ends on 2024-03-31
C10_Witness ==
  /\ op = "getPeriodEnd"
  /\ viewMode = Month
  /\ currentDate.day = MakeDay(2024, 2, 15)
  /\ ret = <<NewDate(2024, 2, 31)>>

---------------------------------------------------------------------------
(* Properties of the date utilities (checked under SpecMath) *)

IsLeapYear(y) == (y % 4 = 0 /\ y % 100 # 0) \/ y % 400 = 0

\* number of days of month m (0-based) of year y, from the calendar rules
DaysInMonth(y, m) ==
  IF m = 1 THEN (IF IsLeapYear(y) THEN 29 ELSE 28)
  ELSE IF m \in {3, 5, 8, 10} THEN 30 ELSE 31

SameMonth(a, b) == getFullYear(a) = getFullYear(b) /\ getMonth(a) = getMonth(b)

\* C5: getWeekStart(d) is the Monday at 00:00 of the Monday-first week
\* containing d (6 days back for a Sunday), getWeekEnd(d) that week's Sunday at
\* 23:59:59.999; weekStart(d) <= d <= weekEnd(d) and the week spans exactly 7
\* calendar days, also across a month or year boundary.
C5_WeekBounds ==
  /\ op = "getWeekStart" =>
       LET d == arg[1]
           r == ret[1]
       IN  /\ r.ms = 0
           /\ getDay(r) = 1
           /\ r.day <= d.day /\ d.day <= r.day + 6
           /\ getDay(d) = 0 => r.day = d.day - 6
           /\ DateLE(r, d)
  /\ op = "getWeekEnd" =>
       LET d == arg[1]
           r == ret[1]
       IN  /\ r.ms = MsPerDay - 1
           /\ getDay(r) = 0
           /\ d.day <= r.day /\ r.day <= d.day + 6
           /\ r.day = getWeekStart(d).day + 6
           /\ DateLE(d, r)
           /\ d.day = MakeDay(2024, 11, 30) => r.day = MakeDay(2025, 0, 5)

\* the week of 2024-12-30 ends on 2025-01-05
C5_Witness ==
  /\ op = "getWeekEnd"
  /\ arg[1].day = MakeDay(2024, 11, 30)
  /\ ret = <<[day |-> MakeDay(2025, 0, 5), ms |-> MsPerDay - 1]>>

\* C6: getWeekStart is idempotent: getWeekStart(getWeekStart(d)) = getWeekStart(d).
C6_WeekStartIdempotent ==
  op = "getWeekStart" => getWeekStart(ret[1]) = ret[1]

\* a Sunday afternoon, moved six days back
C6_Witness ==
  /\ op = "getWeekStart"
  /\ getDay(arg[1]) = 0
  /\ arg[1].ms > 0
  /\ ret[1].day = arg[1].day - 6

\* C7: generateCalendarDates(year, month) returns a sequence whose length is a
\* multiple of 7 between 28 and 42.
C7_GridLength ==
  op = "generateCalendarDates" =>
    /\ Len(ret) % 7 = 0
    /\ 28 <= Len(ret)
    /\ Len(ret) <= 42

\* a non-leap February that starts on a Monday fills exactly four weeks
C7_Witness == op = "generateCalendarDates" /\ Len(ret) = 28

\* a month that needs six weeks
C7_WitnessSixWeeks == op = "generateCalendarDates" /\ Len(ret) = 42

\* C8: generateCalendarDates(year, month) returns, ascending and one entry per
\* calendar day, every date from weekStart(first of month) through
\* weekEnd(last of month): it starts on a Monday, ends on a Sunday and holds
\* every day of the month exactly once.
C8_GridContents ==
  op = "generateCalendarDates" =>
    LET y == arg[1]
        m == arg[2]
        n == Len(ret)
    IN  /\ n >= 1
        /\ getDay(ret[1]) = 1
        /\ getDay(ret[n]) = 0
        /\ \A i \in 1 .. n : ret[i].ms = 0
        /\ \A i \in 1 .. (n - 1) : ret[i + 1].day = ret[i].day + 1
        /\ ret[1].day <= MakeDay(y, m, 1) /\ MakeDay(y, m, 1) <= ret[1].day + 6
        /\ ret[n].day >= MakeDay(y, m, DaysInMonth(y, m))
        /\ ret[n].day <= MakeDay(y, m, DaysInMonth(y, m)) + 6
        /\ \A k \in 1 .. DaysInMonth(y, m) :
             Cardinality({ i \in 1 .. n :
                 /\ getFullYear(ret[i]) = y
                 /\ getMonth(ret[i]) = m
                 /\ getDate(ret[i]) = k }) = 1
        /\ (y = 2024 /\ m = 2) =>
             /\ n = 35
             /\ ret[1] = NewDate(2024, 1, 26)
             /\ ret[35] = NewDate(2024, 2, 31)

\* generateCalendarDates(2024, 2): the 35 days 2024-02-26 .. 2024-03-31
C8_Witness ==
  /\ op = "generateCalendarDates"
  /\ arg = <<2024, 2>>
  /\ Len(ret) = 35
  /\ ret[1].day = MakeDay(2024, 1, 26)

\* C9: getMonthStart(d) is day 1 of d's month and getMonthEnd(d) the last
\* calendar day of d's month (28/29/30/31), including February in leap and
\* non-leap years and December.
C9_MonthBounds ==
  /\ op = "getMonthStart" =>
       /\ SameMonth(ret[1], arg[1])
       /\ getDate(ret[1]) = 1
  /\ op = "getMonthEnd" =>
       /\ SameMonth(ret[1], arg[1])
       /\ getDate(ret[1]) = DaysInMonth(getFullYear(arg[1]), getMonth(arg[1]))
       /\ getDate([day |-> ret[1].day + 1, ms |-> 0]) = 1

\* February of a leap year ends on the 29th
C9_Witness ==
  /\ op = "getMonthEnd"
  /\ getFullYear(arg[1]) = 2024
  /\ getMonth(arg[1]) = 1
  /\ getDate(ret[1]) = 29

\* December ends on the 31st of the same year
C9_WitnessDecember ==
  /\ op = "getMonthEnd"
  /\ getFullYear(arg[1]) = 2024
  /\ getMonth(arg[1]) = 11
  /\ ret[1] = NewDate(2024, 11, 31)

---------------------------------------------------------------------------
(* Properties of the events shown by the views *)

IsSortedByStart(evs) ==
  \A i \in 1 .. (Len(evs) - 1) :
    ~DateLT(evs[i + 1].startDateTime, evs[i].startDateTime)

\* C11: after any sequence of fetches and local addEvent/updateEvent/
\* removeEvent operations, the events listed for a date in every view (Month
\* cell, Week column, Day list) are ordered by startDateTime ascending.
C11_ListedEventsSorted ==
  \A date \in CellDates :
    /\ IsSortedByStart(MonthGetEventsForDate(events, date))
    /\ IsSortedByStart(WeekGetEventsForDate(events, date))
    /\ IsSortedByStart(dayEvents(events, date))

\* the elements of a sequence
Range(seq) == { seq[i] : i \in 1 .. Len(seq) }

PerDateOps == {"renderDateCell", "renderDateColumn", "dayEvents", "getEventsForHour"}

\* C12: the per-date event selection (getEventsForDate in Month and Week
\* views, dayEvents in Day view) returns exactly the events of the list whose
\* startDateTime falls on the same calendar day as the cell's date, ignoring
\* time of day, and never an event that starts on a different calendar day.
C12_PerDateSelection ==
  op \in PerDateOps =>
    LET date     == IF viewMode = Day THEN currentDate ELSE arg[1]
        selected == ret[1].dayEvents
    IN  /\ Range(selected) =
             { e \in Range(events) : e.startDateTime.day = date.day }
        /\ Len(selected) = Cardinality(Range(selected))

\* the Day view of 2024-03-15 15:30 picks the events of that day, from 09:00
\* to 23:59:59.999, and leaves out the one of the next day
C12_Witness ==
  /\ op = "dayEvents"
  /\ currentDate.ms > 0
  /\ Len(events) = Len(ViewEventShapes)
  /\ Len(ret[1].dayEvents) = Len(events) - 1

\* C13: an event whose isDeleted flag is true is never returned by the
\* per-date event selection, whatever event list the views are given.
C13_NoDeletedEventShown ==
  op \in PerDateOps => \A e \in Range(ret[1].dayEvents) : ~e.isDeleted

\* C14: in Day view an event of the day occupies hour slot h (0..23) exactly
\* when startHour <= h <= endHour (local hour components, inclusive at both
\* ends): 10:00-10:30 occupies only slot 10, 10:00-11:05 slots 10 and 11.
C14_HourSlots ==
  op = "getEventsForHour" =>
    LET h    == arg[1]
        slot == Range(ret[1].hourEvents)
        msPerHour == 60 * 60 * 1000
    IN  /\ \A e \in Range(events) :
             e \in slot <=>
               /\ e.startDateTime.day = currentDate.day
               /\ e.startDateTime.ms \div msPerHour <= h
               /\ h <= e.endDateTime.ms \div msPerHour
        /\ ViewEventShapes[1] \in Range(ret[1].dayEvents) =>
             (ViewEventShapes[1] \in slot <=> h = 10)
        /\ ViewEventShapes[2] \in Range(ret[1].dayEvents) =>
             (ViewEventShapes[2] \in slot <=> h \in {10, 11})

\* the 10:00-11:05 event is in slot 11, the 10:00-10:30 event is not
C14_Witness ==
  /\ op = "getEventsForHour"
  /\ arg[1] = 11
  /\ ViewEventShapes[2] \in Range(ret[1].hourEvents)
  /\ ViewEventShapes[1] \in Range(ret[1].dayEvents)
  /\ ViewEventShapes[1] \notin Range(ret[1].hourEvents)

\* C15: a malformed event with endDateTime <= startDateTime (equal or
\* inverted, also with the end on another day) is returned by
\* getEventsForHour for no hour slot.
C15_MalformedInNoSlot ==
  op = "getEventsForHour" =>
    \A e \in Range(ret[1].hourEvents) : DateLT(e.startDateTime, e.endDateTime)

\* C16 as stated: a Month-view cell with n events renders min(n, 3) chips (the
\* first three of the cell's list) and, only when n > 3, an overflow count of
\* n - 3.
C16_CellOverflowAlways ==
  op = "renderDateCell" =>
    LET cell == ret[1]
        n    == Len(cell.dayEvents)
    IN  /\ Len(cell.chips) = Min(n, 3)
        /\ \A i \in 1 .. Len(cell.chips) : cell.chips[i] = cell.dayEvents[i]
        /\ cell.overflow = IF n > 3 THEN <<n - 3>> ELSE <<>>

\* C16 (amended): while the view is not loading, a Month-view cell with n
\* events renders min(n, 3) chips (the first three of the cell's list) and,
\* only when n > 3, an overflow count of n - 3, so chips + overflow = n; while
\* it is loading the cell renders placeholders, no chip and no count.
C16_CellOverflow ==
  op = "renderDateCell" =>
    LET cell == ret[1]
        n    == Len(cell.dayEvents)
        shown == Len(cell.chips) + (IF cell.overflow = <<>> THEN 0 ELSE cell.overflow[1])
    IN  /\ ~loading.isLoading =>
             /\ Len(cell.chips) = Min(n, 3)
             /\ \A i \in 1 .. Len(cell.chips) : cell.chips[i] = cell.dayEvents[i]
             /\ cell.overflow = IF n > 3 THEN <<n - 3>> ELSE <<>>
             /\ shown = n
             /\ ~cell.skeleton
        /\ loading.isLoading =>
             /\ cell.skeleton
             /\ cell.chips = <<>>
             /\ cell.overflow = <<>>

\* a cell with 5 events: 3 chips and "+2"
C16_Witness ==
  /\ op = "renderDateCell"
  /\ ~loading.isLoading
  /\ Len(ret[1].dayEvents) = 5
  /\ Len(ret[1].chips) = 3
  /\ ret[1].overflow = <<2>>

---------------------------------------------------------------------------
(* Properties of form validation (checked under SpecForm) *)

\* the fields of a form that break their rule of the validator's contract
InvalidFields(data) ==
  LET tooLong(text, max) == text.len > max
      present(field) == field.defined
      parses(date) == date.ms >= 0
  IN  { k \in FormFields :
          \/ k = "title" /\ (data.title.len = 0 \/ data.title.blank \/ tooLong(data.title, 200))
          \/ k = "description" /\ present(data.description) /\ tooLong(data.description.value, 1000)
          \/ k = "startDateTime" /\ ~parses(data.startDateTime)
          \/ k = "endDateTime" /\ ~( /\ parses(data.endDateTime)
                                     /\ parses(data.startDateTime)
                                     /\ DateLT(data.startDateTime, data.endDateTime) )
          \/ k = "location" /\ present(data.location) /\ tooLong(data.location.value, 200)
          \/ k = "category" /\ present(data.category)
                            /\ data.category.value \notin validCategories \cup {""}
          \/ k = "color" /\ present(data.color) /\ data.color.value # <<>>
                         /\ ~( /\ Len(data.color.value) - 1 \in {3, 6}
                               /\ Head(data.color.value) = "#"
                               /\ Range(Tail(data.color.value)) \subseteq HexDigits ) }

\* C17: validateEventForm checks every field without short-circuiting: for
\* every combination of invalid fields the result has an error key for each
\* invalid field and for no valid field; {title: "", startDateTime: t,
\* endDateTime: t} yields errors for both title and endDateTime.
C17_AllFieldsChecked ==
  op = "validateEventForm" =>
    LET data == arg[1]
    IN  /\ DOMAIN ret[1] = InvalidFields(data)
        /\ ( /\ data.title.len = 0
             /\ data.startDateTime = data.endDateTime
             /\ data.startDateTime # InvalidDate )
           => {"title", "endDateTime"} \subseteq DOMAIN ret[1]

\* the form {title: "", startDateTime: t, endDateTime: t} with nothing else
\* filled in: exactly the title and endDateTime errors
C17_Witness ==
  /\ op = "validateEventForm"
  /\ arg[1].title.len = 0
  /\ arg[1].startDateTime = arg[1].endDateTime
  /\ arg[1].startDateTime # InvalidDate
  /\ DOMAIN ret[1] = {"title", "endDateTime"}
  /\ ret[1].title = "required"
  /\ ret[1].endDateTime = "dateOrder"

\* every field invalid at once: seven error keys
C17_WitnessAllInvalid ==
  /\ op = "validateEventForm"
  /\ DOMAIN ret[1] = FormFields

\* C18: validateEventForm reports an endDateTime error whenever both
\* timestamps are valid and endDateTime is not strictly after startDateTime
\* (equal as well as inverted), and no date-order error when
\* endDateTime > startDateTime.
C18_StrictDateOrder ==
  op = "validateEventForm" =>
    LET start == arg[1].startDateTime
        end   == arg[1].endDateTime
        endsAfterStart == end.day > start.day \/ (end.day = start.day /\ end.ms > start.ms)
    IN  (start # InvalidDate /\ end # InvalidDate) =>
          /\ ~endsAfterStart => ("endDateTime" \in DOMAIN ret[1] /\ ret[1].endDateTime = "dateOrder")
          /\ endsAfterStart => "endDateTime" \notin DOMAIN ret[1]

\* equal valid timestamps are rejected
C18_Witness ==
  /\ op = "validateEventForm"
  /\ arg[1].startDateTime # InvalidDate
  /\ arg[1].startDateTime = arg[1].endDateTime
  /\ "endDateTime" \in DOMAIN ret[1]

\* an end on the next day at an earlier clock time is accepted
C18_WitnessAccepted ==
  /\ op = "validateEventForm"
  /\ arg[1].startDateTime.ms > arg[1].endDateTime.ms
  /\ arg[1].endDateTime # InvalidDate
  /\ "endDateTime" \notin DOMAIN ret[1]

\* C19: title validation: an empty title or one that is blank after trimming
\* yields a 'required' error; otherwise a title of at most 200 characters is
\* valid (exactly 200 included) and a longer one (201 onwards) yields a length
\* error, for every title length.
C19_TitleLength ==
  op = "validateEventTitle" =>
    LET title == arg[1].title
    IN  /\ (title.len = 0 \/ title.blank) => ret[1] = "required"
        /\ (title.len > 0 /\ ~title.blank /\ title.len <= 200) => ret[1] = "undefined"
        /\ (~title.blank /\ title.len >= 201) => ret[1] = "maxLength"

\* a non-blank title of exactly 200 characters passes
C19_Witness ==
  /\ op = "validateEventTitle"
  /\ arg[1].title = Text(200, FALSE)
  /\ ret[1] = "undefined"

\* a title of 201 characters is rejected for its length
C19_WitnessTooLong ==
  /\ op = "validateEventTitle"
  /\ arg[1].title = Text(201, FALSE)
  /\ ret[1] = "maxLength"

---------------------------------------------------------------------------
(* Properties of the event store (checked under SpecStore) *)

\* C20: GetEventsAsync returns exactly the non-deleted events whose start
\* date lies within [StartDate, EndDate], inclusive at both ends at day
\* granularity, restricted by the category, creator and title-substring
\* filters when given, ordered by start time ascending; the database path and
\* the sample-data path apply the same selection (the same request on the
\* same events gives the same result on both).
C20_StoreSelection ==
  op = "GetEventsAsync" =>
    LET searchDto == arg[1]
        first == IF searchDto.StartDate.defined THEN searchDto.StartDate.value.day
                 ELSE MakeDay(2024, 1, 15)
        last  == IF searchDto.EndDate.defined THEN searchDto.EndDate.value.day
                 ELSE MakeDay(2024, 3, 15)
        given(field) == field.defined /\ Len(field.value) > 0
        eligible(e) ==
          /\ ~e.IsDeleted
          /\ first <= e.StartTime.day /\ e.StartTime.day <= last
          /\ given(searchDto.Category) => e.Category = searchDto.Category.value
          /\ given(searchDto.CreatedBy) => e.CreatedBy = searchDto.CreatedBy.value
        returned == { ret[1][i].Id : i \in 1 .. Len(ret[1]) }
    IN  /\ \A i \in 1 .. (Len(ret[1]) - 1) :
             DateLT(ret[1][i].StartTime, ret[1][i + 1].StartTime)
        /\ \A e \in Range(events) : e.Id \in returned => eligible(e)
        /\ ~given(searchDto.TitleSearch) =>
             returned = { e.Id : e \in { x \in Range(events) : eligible(x) } }
        /\ given(searchDto.TitleSearch) =>
             \A e \in Range(events) :
               /\ (eligible(e) /\ Contains(e.Title, searchDto.TitleSearch.value, FALSE))
                    => e.Id \in returned
               /\ e.Id \in returned => Contains(e.Title, searchDto.TitleSearch.value, TRUE)
        /\ ret[1] = GetEventsAsync(events, searchDto, ~arg[2])

---------------------------------------------------------------------------
(* Properties of the backend service (checked under SpecService) *)

\* C21: every stored event satisfies EndTime > StartTime after any sequence
\* of create and update requests: a create or update whose end is not
\* strictly after its start is rejected (HTTP 400) and leaves the stored
\* events unchanged.
C21_StoredRangesValid ==
  /\ [](\A e \in Range(StoredEvents(events, useSampleData)) :
          \/ e.EndTime.day > e.StartTime.day
          \/ (e.EndTime.day = e.StartTime.day /\ e.EndTime.ms > e.StartTime.ms))
  /\ [][ (op' \in {"CreateEvent", "UpdateEvent"}) =>
           LET dto == arg'[Len(arg')]
               endsAfterStart ==
                 \/ dto.EndTime.day > dto.StartTime.day
                 \/ (dto.EndTime.day = dto.StartTime.day /\ dto.EndTime.ms > dto.StartTime.ms)
           IN  /\ ~endsAfterStart => (ret'[1] = 400 /\ events' = events)
               /\ endsAfterStart => ret'[1] # 400 ]_vars

\* an update with end = start is refused while the table holds a row
C21_Witness ==
  /\ op = "UpdateEvent"
  /\ ~useSampleData
  /\ arg[1] \in Ids([i \in 1 .. Len(events) |-> [id |-> events[i].Id]])
  /\ arg[2].EndTime = arg[2].StartTime
  /\ ret[1] = 400

\* a valid update of a stored row went through
C21_WitnessUpdated ==
  /\ op = "UpdateEvent"
  /\ ~useSampleData
  /\ ret[1] = 200
  /\ \E i \in 1 .. Len(events) : events[i].Id = arg[1] /\ events[i].EndTime = arg[2].EndTime

\* the ids of the rows marked deleted
DeletedIds(rows) == { rows[i].Id : i \in { j \in 1 .. Len(rows) : rows[j].IsDeleted } }

\* what a request answered in the next state may show of the ids in gone
ExcludedFromAnswers(gone) ==
  /\ (op' = "GetEvent" /\ arg'[1] \in gone) => ret'[1] = 404
  /\ op' = "GetEvents" => \A i \in 1 .. Len(ret'[2]) : ret'[2][i].Id \notin gone
  /\ (op' = "UpdateEvent" /\ arg'[1] \in gone) =>
       /\ ret'[1] \in {400, 404}
       /\ DateLT(arg'[2].StartTime, arg'[2].EndTime) => ret'[1] = 404
       /\ events' = events
  /\ (op' = "DeleteEvent" /\ arg'[1] \in gone) => (ret'[1] = 404 /\ events' = events)

C22_WitnessStats ==
  /\ ~useSampleData
  /\ op = "GetEventStats"
  /\ DeletedIds(events) # {}
  /\ \E key \in DOMAIN ret[2] : ret[2][key] = 1


---------------------------------------------------------------------------
(* Properties of the event dialog (checked under SpecDialog) *)

\* C23: when the form data has any validation error, createEvent and
\* updateEvent of the form hook send no request: they return null, publish the
\* error map as validationErrors, and leave loading and the form data as they were.
C23_InvalidFormSendsNothing ==
  [][ (op' \in {"createEvent", "updateEvent"} /\ InvalidFields(form.formData) # {}) =>
        /\ inflight' = inflight
        /\ ret' = <<"null">>
        /\ form'.validationErrors = validateEventForm(form.formData)
        /\ DOMAIN form'.validationErrors = InvalidFields(form.formData)
        /\ form'.loading = form.loading
        /\ form'.formData = form.formData ]_vars

\* an update submitted with an emptied title was refused
C23_Witness ==
  /\ op = "updateEvent"
  /\ isEditing
  /\ ret = <<"null">>
  /\ "title" \in DOMAIN form.validationErrors
  /\ inflight = <<>>
  /\ ~form.loading.isLoading

\* a creation submitted with an empty title was refused
C23_WitnessCreate ==
  /\ op = "createEvent"
  /\ ret = <<"null">>
  /\ "title" \in DOMAIN form.validationErrors
  /\ inflight = <<>>

\* the form shows the event: each field holds the event's value, an empty
\* or absent optional field shows as empty (the colour as the default colour)
ShowsEvent(data, event) ==
  LET shownText(field) == IF field.defined THEN field.value.len ELSE 0
      shownString(field) == IF field.defined THEN field.value ELSE ""
      shownColor(field) == IF field.defined /\ Len(field.value) > 0 THEN field.value
                           ELSE DefaultColor
  IN  /\ data.title = event.title
      /\ shownText(data.description) = shownText(event.description)
      /\ data.startDateTime = event.startDateTime
      /\ data.endDateTime = event.endDateTime
      /\ shownText(data.location) = shownText(event.location)
      /\ shownString(data.category) = shownString(event.category)
      /\ shownColor(data.color) = shownColor(event.color)

\* C27: when the dialog has just been opened to edit an event, after any
\* earlier dialog sessions, every form field equals that event's field; an
\* empty or absent description, location or category gives an empty field.
C27_EditFormShowsEvent ==
  op = "handleEditEvent" => ShowsEvent(form.formData, dialog.event)


---------------------------------------------------------------------------
(* Properties of CalendarApp (checked under SpecApp) *)

\* C24: every transition of the view state that changes the anchor date or
\* the mode starts a range fetch whose bounds are getPeriodStart() and
\* getPeriodEnd() of the new state.
C24_TransitionFetchesNewPeriod ==
  [][ (currentDate' # currentDate \/ viewMode' # viewMode) =>
        /\ inflight' = inflight (+) SetToBag({
             [request |-> "range",
              startDate |-> getPeriodStart(currentDate', viewMode'),
              endDate |-> getPeriodEnd(currentDate', viewMode')] })
        /\ loading'.isLoading ]_vars

\* the mode was switched to Week on 15 April and the range of the week of
\* 15 to 21 April was requested
C24_Witness ==
  /\ op = "changeViewMode"
  /\ viewMode = Week
  /\ currentDate.day = MakeDay(2024, 3, 15)
  /\ BagToSet(inflight) =
       { [request |-> "range",
          startDate |-> [day |-> MakeDay(2024, 3, 15), ms |-> 0],
          endDate |-> [day |-> MakeDay(2024, 3, 21),
                       ms |-> TimeOfDay(23, 59, 59, 999)]] }

\* C25: once no fetch is in flight (and the last one did not fail), the
\* events list is the response to the range request for the period shown,
\* whatever the order in which the responses arrived.
C25_SettledListIsCurrentPeriod ==
  (BagToSet(inflight) = {} /\ loading.error = "null") =>
     events = Answer(RangeRequest(currentDate, viewMode))

\* C26: loading.isLoading is true whenever at least one fetch is in flight:
\* a response or failure never clears the flag while another request is
\* still outstanding.
C26_LoadingWhileInFlight ==
  BagToSet(inflight) # {} => loading.isLoading

---------------------------------------------------------------------------
(* Further properties of the view state (checked under Spec) *)

\* C28: goToNext followed by goToPrevious, and goToPrevious followed by
\* goToNext, with no mode change in between, restores the anchor date, in
\* every mode.
C28_NextPreviousRestoreAnchor ==
  [][ /\ op' = "goToNext" => previousDate(currentDate', viewMode') = currentDate
      /\ op' = "goToPrevious" => nextDate(currentDate', viewMode') = currentDate ]_vars

\* the calendar days of the period shown: the anchor's month, its
\* Monday-first week, or its day
OnDayOfPeriod(current, mode, date) ==
  CASE mode = Month -> SameMonth(date, current)
    [] mode = Week  -> LET monday == current.day - ((getDay(current) + 6) % 7)
                       IN  monday <= date.day /\ date.day <= monday + 6
    [] mode = Day   -> date.day = current.day
    [] OTHER        -> FALSE

\* C29: isDateInPeriod(t) is true exactly for the timestamps that fall on a
\* calendar day of the period shown, including any time on the last day of
\* the month in Month mode.
C29_InPeriodIffOnPeriodDay ==
  op = "isDateInPeriod" =>
    (ret[1] <=> OnDayOfPeriod(currentDate, viewMode, arg[1]))

---------------------------------------------------------------------------
(* Further properties of CalendarApp (checked under SpecApp) *)

\* C30: a failed fetch leaves the events list unchanged and ends with
\* isLoading false and a non-null error, throwing nothing; a successful fetch
\* replaces the list with the response and ends with isLoading false and
\* error null; clearError resets only the error.
C30_FetchOutcomes ==
  [][ /\ op' = "fetchRejected" =>
           /\ events' = events
           /\ ~loading'.isLoading
           /\ loading'.error # "null"
           /\ ret' = <<"fulfilled">>
      /\ op' = "fetchResolved" =>
           /\ \E request \in BagToSet(inflight) :
                /\ inflight' = inflight (-) SetToBag({request})
                /\ events' = Answer(request)
           /\ loading' = [isLoading |-> FALSE, error |-> "null"]
      /\ op' = "clearError" =>
           /\ loading'.error = "null"
           /\ loading'.isLoading = loading.isLoading
           /\ UNCHANGED <<events, inflight, currentDate, viewMode>> ]_vars

\* a fetch failed after an earlier one had filled the list
C30_Witness ==
  /\ op = "fetchRejected"
  /\ events # <<>>
  /\ loading = [isLoading |-> FALSE, error |-> "message"]

\* the error of a failed fetch was dismissed while another request was
\* still in flight and the list was filled
C30_WitnessCleared ==
  /\ op = "clearError"
  /\ loading = [isLoading |-> FALSE, error |-> "null"]
  /\ BagToSet(inflight) # {}
  /\ events # <<>>

====
